---- MODULE Spec2Model ----
(***************************************************************************)
(* The sync engine of tvmaze-sync: the show cache (src/database.py), the   *)
(* processor (src/processor.py) and the orchestration of a cycle           *)
(* (src/main.py), with the TVMaze and Sonarr services as an environment    *)
(* that answers every call nondeterministically.                           *)
(*                                                                         *)
(* Conventions.  A nullable Python value is None == <<>> or Some(x) ==     *)
(* <<x>>.  A Python string built by formatting is the sequence of its      *)
(* parts.  A datetime is an integer number of clock ticks; the cache       *)
(* stores datetimes as isoformat() text and SQL compares that text, which  *)
(* isoformat and TextLeq model.  Durations are already parsed (ticks).     *)
(***************************************************************************)
EXTENDS Integers, Sequences, FiniteSets, TLC

VARIABLES
    db,        \* shows table: tvmaze_id -> row (src/database.py SCHEMA)
    state,     \* the in-memory SyncState
    disk,      \* state.json, state.json.bak and state.json.tmp
    config,    \* the loaded Config: dry_run and filters
    clock,     \* datetime.now(UTC)
    pc,        \* where the daemon is
    loc,       \* locals of the running function: page, queue, probe counters, now
    stats,     \* SyncStats of the running cycle
    ev,        \* what the last step did (observation only)
    track,     \* per show: since when it is pending with no TVDB id (observation only)
    sched,     \* the Scheduler object and the threads that use it (src/scheduler.py)
    net        \* the TVMaze client: rate limiter and request in progress

\* The variables of the sync engine
engine == <<db, state, disk, config, clock, pc, loc, stats, ev, track>>

vars == <<db, state, disk, config, clock, pc, loc, stats, ev, track, sched, net>>

-----------------------------------------------------------------------------
\* Bounds of the model

MaxId == 1
MaxTime == 2
MaxUpdated == 1
RetryDelay == 1
AbandonAfter == 2

\* Program constants

max_not_found == 10
PageSize == 2

-----------------------------------------------------------------------------
\* Values

None == <<>>
Some(x) == <<x>>
Val(o) == o[1]

IDs == 1..MaxId
Times == 0..MaxTime
Languages == {"English", "French"}

\* ProcessingStatus
PENDING == "pending"
FILTERED == "filtered"
PENDING_TVDB == "pending_tvdb"
ADDED == "added"
EXISTS == "exists"
FAILED == "failed"
SKIPPED == "skipped"

\* datetime.isoformat() of a UTC datetime: whole seconds, then "+00:00" when the
\* microsecond is 0 and ".ffffff+00:00" otherwise. A tick is half a second. The
\* second component orders the character after the seconds: "+" (0) before "." (1).
isoformat(t) == <<t \div 2, IF t % 2 = 0 THEN 0 ELSE 1, t % 2>>

\* SQLite's text comparison a <= b of two isoformat texts (lexicographic)
TextLeq(a, b) ==
    \/ a[1] < b[1]
    \/ a[1] = b[1] /\ a[2] < b[2]
    \/ a[1] = b[1] /\ a[2] = b[2] /\ a[3] <= b[3]

TextGt(a, b) == ~TextLeq(a, b)

-----------------------------------------------------------------------------
\* Show (src/models.py)

\* The fields of the Show dataclass. There is no pending_since among them.
ShowFields ==
    {"tvmaze_id", "tvdb_id", "language", "type", "genres", "processing_status",
     "filter_reason", "sonarr_series_id", "added_to_sonarr_at", "tvmaze_updated_at",
     "retry_after", "retry_count", "error_message"}

\* The upstream records the environment can return for show id
\* (the show's language does not change: odd ids are English, even ids French)
LanguageOf(id) == IF id % 2 = 1 THEN "English" ELSE "French"

Records(id) ==
    [id : {id}, thetvdb : {None, Some(100 + id)}, language : {LanguageOf(id)},
     updated : 1..MaxUpdated]

from_tvmaze_response(data) ==
    [tvmaze_id |-> data.id,
     tvdb_id |-> data.thetvdb,
     language |-> data.language,
     type |-> "Scripted",
     genres |-> {"Drama"},
     processing_status |-> PENDING,
     filter_reason |-> None,
     sonarr_series_id |-> None,
     added_to_sonarr_at |-> None,
     tvmaze_updated_at |-> Some(data.updated),
     retry_after |-> None,
     retry_count |-> 0,
     error_message |-> None]

from_db_row(row) == [f \in ShowFields |-> row[f]]

to_db_dict(show) == [f \in ShowFields |-> show[f]]

-----------------------------------------------------------------------------
\* Database (src/database.py)

Put(d, id, row) == [i \in (DOMAIN d) \cup {id} |-> IF i = id THEN row ELSE d[i]]

Update(d, id, changes) ==
    IF id \in DOMAIN d THEN [d EXCEPT ![id] = changes @@ d[id]] ELSE d

\* INSERT OR REPLACE of the columns of to_db_dict: the old row is deleted, and a
\* column the statement does not name (pending_since) takes its default, NULL.
upsert_show(d, show) ==
    Put(d, show.tvmaze_id, to_db_dict(show) @@ [pending_since |-> None])

\* A cache written under schema version 1, whose rows have no pending_since
\* column: empty of pending shows, or holding show 1 waiting for its TVDB id.
V1Caches ==
    {1 :> [tvmaze_id |-> 1, tvdb_id |-> None, language |-> "English",
           type |-> "Scripted", genres |-> {"Drama"},
           processing_status |-> PENDING_TVDB, filter_reason |-> None,
           sonarr_series_id |-> None, added_to_sonarr_at |-> None,
           tvmaze_updated_at |-> Some(1), retry_after |-> Some(RetryDelay),
           retry_count |-> 0, error_message |-> Some(<<"No TVDB ID available">>)]}

\* migrate_schema from version 1: the column is added, and backfilled with
\* retry_after on the rows that are pending_tvdb
migrate_schema(d) ==
    [id \in DOMAIN d |->
        d[id] @@ [pending_since |-> IF d[id].processing_status = PENDING_TVDB
                                    THEN d[id].retry_after ELSE None]]

get_show(d, id) == IF id \in DOMAIN d THEN Some(from_db_row(d[id])) ELSE None

\* Variant: every pending show whose retry_after has come, whatever its age
get_shows_for_retry_any_age(d, now, abandon_after) ==
    {id \in DOMAIN d :
        /\ d[id].processing_status = PENDING_TVDB
        /\ d[id].retry_after # None
        /\ TextLeq(isoformat(Val(d[id].retry_after)), isoformat(now))}

get_shows_for_retry(d, now, abandon_after) ==
    LET abandon_cutoff == isoformat(now - abandon_after)
    IN {id \in DOMAIN d :
          /\ d[id].processing_status = PENDING_TVDB
          /\ d[id].retry_after # None
          /\ TextLeq(isoformat(Val(d[id].retry_after)), isoformat(now))
          /\ \/ d[id].pending_since = None
             \/ TextGt(isoformat(Val(d[id].pending_since)), abandon_cutoff)}

get_shows_to_abandon(d, now, abandon_after) ==
    LET abandon_cutoff == isoformat(now - abandon_after)
    IN {id \in DOMAIN d :
          /\ d[id].processing_status = PENDING_TVDB
          /\ d[id].pending_since # None
          /\ TextLeq(isoformat(Val(d[id].pending_since)), abandon_cutoff)}

get_all_filtered_shows(d) == {id \in DOMAIN d : d[id].processing_status = FILTERED}

mark_show_added(d, id, sonarr_series_id, now) ==
    Update(d, id, [processing_status |-> ADDED,
                   sonarr_series_id |-> sonarr_series_id,
                   added_to_sonarr_at |-> Some(now),
                   filter_reason |-> None,
                   error_message |-> None])

\* Variant: the status is set and the reason is not stored
mark_show_filtered_status_only(d, id, reason, category) ==
    Update(d, id, [processing_status |-> FILTERED,
                   sonarr_series_id |-> None,
                   error_message |-> None])

mark_show_filtered(d, id, reason, category) ==
    Update(d, id, [processing_status |-> FILTERED,
                   filter_reason |-> Some(<<category, ": ">> \o reason),
                   sonarr_series_id |-> None,
                   error_message |-> None])

\* Variant: pending_since keeps its stored value, with no default for NULL
mark_show_pending_tvdb_keeps_null(d, id, retry_after, now) ==
    IF id \in DOMAIN d
    THEN Update(d, id, [processing_status |-> PENDING_TVDB,
                        retry_after |-> Some(retry_after),
                        pending_since |-> d[id].pending_since,
                        error_message |-> Some(<<"No TVDB ID available">>)])
    ELSE d

mark_show_pending_tvdb(d, id, retry_after, now) ==
    IF id \in DOMAIN d
    THEN Update(d, id, [processing_status |-> PENDING_TVDB,
                        retry_after |-> Some(retry_after),
                        pending_since |-> IF d[id].pending_since # None
                                          THEN d[id].pending_since ELSE Some(now),
                        error_message |-> Some(<<"No TVDB ID available">>)])
    ELSE d

mark_show_failed(d, id, error_message) ==
    Update(d, id, [processing_status |-> FAILED, error_message |-> Some(error_message)])

\* Variant: the UPDATE matches no row
update_show_status_no_row(d, id, status) == d

update_show_status(d, id, status) == Update(d, id, [processing_status |-> status])

increment_retry_count(d, id) ==
    IF id \in DOMAIN d
    THEN Update(d, id, [retry_count |-> d[id].retry_count + 1])
    ELSE d

-----------------------------------------------------------------------------
\* Processor (src/processor.py)

\* Decision
ADD == "add"
FILTER == "filter"
RETRY == "retry"

\* The filter specifications a configuration file can hold here. The criteria
\* left out (countries, networks, status, dates, rating, runtime) are empty in
\* both, and an empty criterion constrains nothing.
FilterEnglish ==
    [exclude |-> [genres |-> {}, types |-> {}, languages |-> {}],
     selections |-> <<[name |-> Some("all"), languages |-> {"English"},
                       genres |-> {}, types |-> {}]>>]

FilterNotEnglish ==
    [exclude |-> [genres |-> {}, types |-> {}, languages |-> {"English"}],
     selections |-> <<[name |-> None, languages |-> {}, genres |-> {"Drama"},
                       types |-> {}]>>]

FilterSpecs == {FilterEnglish, FilterNotEnglish}

Configs == [dry_run : BOOLEAN, filters : FilterSpecs]

_matches_exclude(show, exc) ==
    IF exc.genres # {} /\ show.genres # {} /\ (exc.genres \cap show.genres) # {}
    THEN Some(<<"Excluded genre: ", exc.genres \cap show.genres>>)
    ELSE IF exc.types # {} /\ show.type \in exc.types
    THEN Some(<<"Excluded type: ", show.type>>)
    ELSE IF exc.languages # {} /\ show.language \in exc.languages
    THEN Some(<<"Excluded language: ", show.language>>)
    ELSE None

_matches_selection(show, sel) ==
    /\ ~(sel.languages # {} /\ show.language \notin sel.languages)
    /\ ~(sel.genres # {} /\ (sel.genres \cap show.genres) = {})
    /\ ~(sel.types # {} /\ show.type \notin sel.types)

\* ShowProcessor.process: a ProcessingResult
process(show, filters) ==
    IF show.tvdb_id = None
    THEN [decision |-> RETRY, reason |-> <<"No TVDB ID available">>,
          filter_category |-> Some("tvdb")]
    ELSE IF _matches_exclude(show, filters.exclude) # None
    THEN [decision |-> FILTER, reason |-> Val(_matches_exclude(show, filters.exclude)),
          filter_category |-> Some("exclude")]
    ELSE IF filters.selections = <<>>
    THEN [decision |-> FILTER, reason |-> <<"No selections configured">>,
          filter_category |-> Some("selection")]
    ELSE IF \E k \in DOMAIN filters.selections :
                _matches_selection(show, filters.selections[k])
    THEN LET k == CHOOSE j \in DOMAIN filters.selections :
                     /\ _matches_selection(show, filters.selections[j])
                     /\ \A i \in 1..(j - 1) :
                            ~_matches_selection(show, filters.selections[i])
             sel == filters.selections[k]
         IN [decision |-> ADD,
             reason |-> <<"Matched: ",
                          IF sel.name # None THEN Val(sel.name) ELSE "unnamed selection">>,
             filter_category |-> None]
    ELSE [decision |-> FILTER, reason |-> <<"No selection matched">>,
          filter_category |-> Some("selection")]

\* The canonical form that is serialized and digested; the digest is taken to be
\* collision free on the specifications above.
compute_filter_hash(filters) == <<filters.exclude, filters.selections>>

\* One iteration of the loop of re_evaluate_filtered_shows on a filtered row.
\* result.reason (the bare reason) is compared with the stored filter_reason
\* (the text "category: reason").
ReEvaluateRow(row, filters) ==
    LET show == from_db_row(row)
        result == process(show, filters)
    IN IF result.decision = ADD
       THEN [processing_status |-> PENDING] @@ row
       ELSE IF result.decision = FILTER /\ Some(result.reason) # show.filter_reason
       THEN [processing_status |-> FILTERED,
             filter_reason |-> Some(<<Val(result.filter_category), ": ">> \o result.reason),
             sonarr_series_id |-> None,
             error_message |-> None] @@ row
       ELSE row

re_evaluate_filtered_shows(d, filters) ==
    [id \in DOMAIN d |->
        IF id \in get_all_filtered_shows(d) THEN ReEvaluateRow(d[id], filters) ELSE d[id]]

\* The value re_evaluate_filtered_shows returns: the filtered shows that now pass
re_evaluate_filtered_shows_returns(d, filters) ==
    Cardinality({id \in get_all_filtered_shows(d) :
                    process(from_db_row(d[id]), filters).decision = ADD})

\* The value check_filter_change returns
check_filter_change_returns(st, filters, d) ==
    IF st.last_filter_hash # None
        /\ st.last_filter_hash # Some(compute_filter_hash(filters))
    THEN re_evaluate_filtered_shows_returns(d, filters)
    ELSE 0

\* Variant: the filtered shows are re-evaluated at every start
check_filter_change_always_re_evaluates(st, filters, d) ==
    <<[st EXCEPT !.last_filter_hash = Some(compute_filter_hash(filters))],
      re_evaluate_filtered_shows(d, filters)>>

\* Variant: the hash is stored only when a change was detected
check_filter_change_on_change_only(st, filters, d) ==
    LET current_hash == compute_filter_hash(filters)
    IN IF st.last_filter_hash # None /\ st.last_filter_hash # Some(current_hash)
       THEN <<[st EXCEPT !.last_filter_hash = Some(current_hash)],
              re_evaluate_filtered_shows(d, filters)>>
       ELSE <<st, d>>

\* check_filter_change: the new <<state, db>>
check_filter_change(st, filters, d) ==
    LET current_hash == compute_filter_hash(filters)
    IN IF st.last_filter_hash # None /\ st.last_filter_hash # Some(current_hash)
       THEN <<[st EXCEPT !.last_filter_hash = Some(current_hash)],
              re_evaluate_filtered_shows(d, filters)>>
       ELSE <<[st EXCEPT !.last_filter_hash = Some(current_hash)], d>>

-----------------------------------------------------------------------------
\* Sonarr client (src/clients/sonarr.py). The service's answer is an input.

LookupAnswers == {"found", "none"}
AddAnswers == {"id", "noid", "exists", "error"}

SeriesId(id) == 40 + id

\* lookup_series: the first result, or None (no result, or a failed call)
lookup_series(answer, id) == IF answer = "found" THEN Some(id) ELSE None

\* add_series: "id" is a response body with an id, "noid" one without (result.get
\* gives None), "exists" a PyarrError whose text says the series was already
\* added, "error" any other failure.
\* Variant: the "already added" text is not recognised
add_series_exists_unrecognised(answer, id) ==
    CASE answer = "id" ->
           [success |-> TRUE, series_id |-> Some(SeriesId(id)), exists |-> FALSE,
            error |-> None]
      [] answer = "noid" ->
           [success |-> TRUE, series_id |-> None, exists |-> FALSE, error |-> None]
      [] OTHER ->
           [success |-> FALSE, series_id |-> None, exists |-> FALSE,
            error |-> Some(<<"add failed">>)]

add_series(answer, id) ==
    CASE answer = "id" ->
           [success |-> TRUE, series_id |-> Some(SeriesId(id)), exists |-> FALSE,
            error |-> None]
      [] answer = "noid" ->
           [success |-> TRUE, series_id |-> None, exists |-> FALSE, error |-> None]
      [] answer = "exists" ->
           [success |-> FALSE, series_id |-> None, exists |-> TRUE, error |-> None]
      [] OTHER ->
           [success |-> FALSE, series_id |-> None, exists |-> FALSE,
            error |-> Some(<<"add failed">>)]

-----------------------------------------------------------------------------
\* Operational state (src/state.py)

DefaultState ==
    [last_full_sync |-> None, last_incremental_sync |-> None, last_tvmaze_page |-> 0,
     highest_tvmaze_id |-> 0, last_filter_hash |-> None]

\* Variant: only the date part of the text is read
fromisoformat_date_only(text) == text[1] * 2

\* datetime.fromisoformat of a text isoformat produced
fromisoformat(text) == text[1] * 2 + text[3]

\* SyncState.to_dict: the times become isoformat texts
to_dict(st) ==
    [last_full_sync |->
        IF st.last_full_sync # None THEN Some(isoformat(Val(st.last_full_sync))) ELSE None,
     last_incremental_sync |->
        IF st.last_incremental_sync # None
        THEN Some(isoformat(Val(st.last_incremental_sync))) ELSE None,
     last_tvmaze_page |-> st.last_tvmaze_page,
     highest_tvmaze_id |-> st.highest_tvmaze_id,
     last_filter_hash |-> st.last_filter_hash]

\* SyncState.from_dict of a document that passed validate_state
from_dict(data) ==
    [last_full_sync |->
        IF data.last_full_sync # None
        THEN Some(fromisoformat(Val(data.last_full_sync))) ELSE None,
     last_incremental_sync |->
        IF data.last_incremental_sync # None
        THEN Some(fromisoformat(Val(data.last_incremental_sync))) ELSE None,
     last_tvmaze_page |-> data.last_tvmaze_page,
     highest_tvmaze_id |-> data.highest_tvmaze_id,
     last_filter_hash |-> data.last_filter_hash]

\* The length of an integer in the JSON text
IntLen(n) == IF n < 10 THEN 1 ELSE 2

\* The length of a time in the JSON text: null, or a quoted isoformat text
TimeLen(t) == IF t = None THEN 4 ELSE 21

\* The part of the length of json.dump's text that depends on the document
DocLen(doc) ==
    TimeLen(doc.last_full_sync) + TimeLen(doc.last_incremental_sync)
        + IntLen(doc.last_tvmaze_page) + IntLen(doc.highest_tvmaze_id)

\* What a file can hold. doc is the document that was written last and len the
\* length of the file; defect tells what is wrong with the bytes on disk:
\* "" nothing, "truncated" the text stops before its end, "overwritten" the
\* text is followed by the rest of a longer text that was there before,
\* "undecodable" the bytes are not text in the file encoding, "invalid" the text
\* is JSON that validate_state rejects (not a dictionary, a required key
\* missing, a value of the wrong type, a date that does not parse).
Defects == {"", "truncated", "overwritten", "undecodable", "invalid"}

\* The file json.dump(self.to_dict(), f) leaves when it writes a new file
File(st) == [doc |-> to_dict(st), defect |-> "", len |-> DocLen(to_dict(st))]

\* A file of length zero, as open(..., 'w') leaves it
EmptyFile == [doc |-> to_dict(DefaultState), defect |-> "truncated", len |-> 0]

\* The buffered text of doc is written at the start of an open file: a file that
\* was longer keeps its tail
write_at_start(file, doc) ==
    IF file.len <= DocLen(doc)
    THEN [doc |-> doc, defect |-> "", len |-> DocLen(doc)]
    ELSE [doc |-> doc, defect |-> "overwritten", len |-> file.len]

\* open and json.load of load: "data" when a document was read, "caught" when
\* the except clause (json.JSONDecodeError, IOError) handles the failure, and
\* "raised" when the failure is a UnicodeDecodeError, which is neither
json_load(f) ==
    CASE f.defect \in {"truncated", "overwritten"} -> "caught"
      [] f.defect = "undecodable" -> "raised"
      [] OTHER -> "data"

\* validate_state
validate_state(f) == f.defect # "invalid"

\* A candidate file of load gives a state
Loadable(file) ==
    file # None /\ json_load(Val(file)) = "data" /\ validate_state(Val(file))

\* load ends with an exception: the first candidate that exists and stops the
\* search is one whose reading raises
load_raises(dsk) ==
    \/ dsk.state_json # None /\ json_load(Val(dsk.state_json)) = "raised"
    \/ /\ ~Loadable(dsk.state_json)
       /\ dsk.bak # None
       /\ json_load(Val(dsk.bak)) = "raised"

\* SyncState.save, open(tmp_path, 'w'): state.json.tmp is created, or emptied
\* when it exists
open_tmp(dsk) == [dsk EXCEPT !.tmp = Some(EmptyFile)]

\* SyncState.save, the with block ends: the text is flushed to the file the
\* handle was opened on, here the one still named state.json.tmp
flush_tmp(dsk, doc) == [dsk EXCEPT !.tmp = Some(write_at_start(Val(dsk.tmp), doc))]

\* The same flush when the file of the handle has been renamed to state.json
flush_state_json(dsk, doc) ==
    [dsk EXCEPT !.state_json = Some(write_at_start(Val(dsk.state_json), doc))]

\* SyncState.save, tmp_path.replace(path)
replace_tmp(dsk) == [dsk EXCEPT !.state_json = dsk.tmp, !.tmp = None]

\* SyncState.save, except IOError: state.json.tmp is removed if it exists
unlink_tmp(dsk) == [dsk EXCEPT !.tmp = None]

\* SyncState.save when nothing fails and no other thread saves
save(dsk, st) == replace_tmp(flush_tmp(open_tmp(dsk), to_dict(st)))

\* SyncState.backup: state.json is copied to state.json.bak when it exists
backup(dsk) == IF dsk.state_json # None THEN [dsk EXCEPT !.bak = dsk.state_json] ELSE dsk

\* SyncState.load when it returns: state.json, else state.json.bak, else a
\* fresh state
load(dsk) ==
    IF Loadable(dsk.state_json) THEN from_dict(Val(dsk.state_json).doc)
    ELSE IF Loadable(dsk.bak) THEN from_dict(Val(dsk.bak).doc)
    ELSE DefaultState

-----------------------------------------------------------------------------
\* Orchestration (src/main.py)

Max(a, b) == IF a >= b THEN a ELSE b

RECURSIVE Ascending(_)
Ascending(S) ==
    IF S = {} THEN <<>>
    ELSE LET m == CHOOSE x \in S : \A y \in S : x <= y
         IN <<m>> \o Ascending(S \ {m})

ZeroStats ==
    [shows_processed |-> 0, shows_added |-> 0, shows_filtered |-> 0,
     shows_skipped |-> 0, shows_failed |-> 0, shows_exists |-> 0]

\* pending_at_start and cached_at_start are observations: the shows that were
\* PENDING, and the shows that were cached, when the cycle began.
NoLoc == [page |-> 0, queue |-> <<>>, current_id |-> 0, consecutive_not_found |-> 0,
          now |-> 0, shows_to_abandon |-> <<>>, pending_at_start |-> {},
          cached_at_start |-> {}]

\* The observation of a step: the operation, the show it handled, the processor's
\* decision, whether Sonarr's lookup and add were called, the answer that decided
\* the step, and for a retry what the services answered (or would have).
Event(op, id, decision, lookup, add, answer, input) ==
    [op |-> op, id |-> id, decision |-> decision, lookup |-> lookup, add |-> add,
     answer |-> answer, input |-> input]

\* A step that handles no show
Quiet == Event("", 0, "", FALSE, FALSE, "", <<>>)

\* Variant: process_single_show without the dry-run return
process_single_show_no_dry_run(d, cfg, show, st, now, la, aa) ==
    LET id == show.tvmaze_id
        d1 == upsert_show(d, show)
        st1 == [st EXCEPT !.shows_processed = @ + 1]
        result == process(show, cfg.filters)
        retry_after == now + RetryDelay
        out(d2, st2, lookup, add, answer) ==
            [db |-> d2, stats |-> st2, decision |-> result.decision,
             lookup |-> lookup, add |-> add, answer |-> answer]
    IN IF result.decision = FILTER
       THEN out(mark_show_filtered(d1, id, result.reason, Val(result.filter_category)),
                [st1 EXCEPT !.shows_filtered = @ + 1], FALSE, FALSE, "")
       ELSE IF result.decision = RETRY
       THEN out(mark_show_pending_tvdb(d1, id, retry_after, now),
                [st1 EXCEPT !.shows_skipped = @ + 1], FALSE, FALSE, "")
       ELSE IF lookup_series(la, Val(show.tvdb_id)) = None
       THEN out(mark_show_pending_tvdb(d1, id, retry_after, now),
                [st1 EXCEPT !.shows_skipped = @ + 1], TRUE, FALSE, "lookup_none")
       ELSE LET add_result == add_series(aa, id)
            IN IF add_result.success
               THEN out(mark_show_added(d1, id, add_result.series_id, now),
                        [st1 EXCEPT !.shows_added = @ + 1], TRUE, TRUE, aa)
               ELSE IF add_result.exists
               THEN out(update_show_status(d1, id, EXISTS),
                        [st1 EXCEPT !.shows_exists = @ + 1], TRUE, TRUE, aa)
               ELSE out(mark_show_failed(d1, id, Val(add_result.error)),
                        [st1 EXCEPT !.shows_failed = @ + 1], TRUE, TRUE, aa)

\* process_single_show with Sonarr's answers la (lookup) and aa (add) at time now:
\* the new cache and statistics, and what was called.
process_single_show(d, cfg, show, st, now, la, aa) ==
    LET id == show.tvmaze_id
        d1 == upsert_show(d, show)
        st1 == [st EXCEPT !.shows_processed = @ + 1]
        result == process(show, cfg.filters)
        retry_after == now + RetryDelay
        out(d2, st2, lookup, add, answer) ==
            [db |-> d2, stats |-> st2, decision |-> result.decision,
             lookup |-> lookup, add |-> add, answer |-> answer]
    IN IF result.decision = FILTER
       THEN out(mark_show_filtered(d1, id, result.reason, Val(result.filter_category)),
                [st1 EXCEPT !.shows_filtered = @ + 1], FALSE, FALSE, "")
       ELSE IF result.decision = RETRY
       THEN out(mark_show_pending_tvdb(d1, id, retry_after, now),
                [st1 EXCEPT !.shows_skipped = @ + 1], FALSE, FALSE, "")
       ELSE IF cfg.dry_run
       THEN out(d1, [st1 EXCEPT !.shows_added = @ + 1], FALSE, FALSE, "dry_run")
       ELSE IF lookup_series(la, Val(show.tvdb_id)) = None
       THEN out(mark_show_pending_tvdb(d1, id, retry_after, now),
                [st1 EXCEPT !.shows_skipped = @ + 1], TRUE, FALSE, "lookup_none")
       ELSE LET add_result == add_series(aa, id)
            IN IF add_result.success
               THEN out(mark_show_added(d1, id, add_result.series_id, now),
                        [st1 EXCEPT !.shows_added = @ + 1], TRUE, TRUE, aa)
               ELSE IF add_result.exists
               THEN out(update_show_status(d1, id, EXISTS),
                        [st1 EXCEPT !.shows_exists = @ + 1], TRUE, TRUE, aa)
               ELSE out(mark_show_failed(d1, id, Val(add_result.error)),
                        [st1 EXCEPT !.shows_failed = @ + 1], TRUE, TRUE, aa)

\* process_single_show when a call after upsert_show raises (a failing cache
\* write, or the processor): the show is counted and stored as upsert_show leaves
\* it, and the exception reaches the caller's except clause.
process_single_show_raises(d, show, st) ==
    [db |-> upsert_show(d, show), stats |-> [st EXCEPT !.shows_processed = @ + 1]]

\* track after a step that left the cache d2 and observed the upstream record of
\* show oid with TVDB id otvdb (oid = 0: no record observed)
Tracked(d2, oid, otvdb) ==
    [i \in IDs |->
        IF i \notin DOMAIN d2 \/ d2[i].processing_status # PENDING_TVDB THEN None
        ELSE IF i # oid THEN track[i]
        ELSE IF otvdb # None THEN None
        ELSE IF i \in DOMAIN db /\ db[i].processing_status = PENDING_TVDB THEN track[i]
        ELSE Some(clock)]

-----------------------------------------------------------------------------
\* Scheduler (src/scheduler.py), and the threads that call it

\* Bounds of the scheduler model
MaxWorkers == 2
MaxStarts == 2
MaxStops == 1
MaxTriggers == 2

Workers == 1..MaxWorkers

\* Scheduler.__init__, with no thread created and no call made yet. The fields
\* after worker are bookkeeping: calls in progress, counts of calls, and
\* observations.
NewScheduler ==
    [_stop_event |-> FALSE,
     _trigger_event |-> FALSE,
     _thread |-> 0,
     _running |-> FALSE,
     worker |-> [w \in Workers |-> [pc |-> "unborn", triggered |-> FALSE, last |-> ""]],
     starting |-> 0,          \* start() calls past the is_alive test
     stopping |-> 0,          \* stop() calls between their two set() calls
     handler |-> 0,           \* POST /trigger handlers past the is_running test
     starts |-> 0, stops |-> 0, triggers |-> 0,
     created |-> 0,           \* threads created so far
     trig_cycles |-> 0,       \* cycles begun after a wait that returned True
     periods |-> 0,           \* waits during which the event was set by a call
     period_has_call |-> FALSE,
     late |-> 0,              \* calls that set the event while no worker waited
     pending |-> FALSE,       \* trigger_now was called and no cycle began since
     last |-> ""]             \* the last step

\* The scheduler after main() has called start() once
StartedScheduler ==
    [NewScheduler EXCEPT !._thread = 1, !.worker[1].pc = "top", !.created = 1,
                         !.starts = 1, !.last = "start_thread"]

\* Thread.is_alive of worker w
is_alive(s, w) == s.worker[w].pc \notin {"unborn", "exited"}

\* self._thread and self._thread.is_alive()
thread_is_alive(s) == s._thread # 0 /\ is_alive(s, s._thread)

\* Variant: trigger_now logs the request and sets nothing
trigger_now_logs_only(s) == s

\* Scheduler.trigger_now
trigger_now(s) == [s EXCEPT !._trigger_event = TRUE]

\* Scheduler.is_running
is_running(s) == s._running

\* Variant: the event is left set after the wait
trigger_event_kept(flag) == flag

\* self._trigger_event.clear()
trigger_event_clear(flag) == FALSE

\* Variant: no except clause, the exception ends the thread
after_sync_func_propagates(outcome) == IF outcome = "raised" THEN "exited" ELSE "unmark"

\* Where the loop goes when sync_func returned or raised: the except clause logs,
\* and both reach the finally clause
after_sync_func(outcome) == "unmark"

\* Bookkeeping of a call that sets the trigger event
NoteSet(s) ==
    LET waiting == \E w \in Workers : s.worker[w].pc = "wait"
    IN [s EXCEPT !.periods = IF waiting /\ ~s.period_has_call THEN @ + 1 ELSE @,
                 !.period_has_call = IF waiting THEN TRUE ELSE @,
                 !.late = IF waiting THEN @ ELSE @ + 1]

\* start(), line 38: the test of self._thread
StartCheck ==
    /\ sched.starts < MaxStarts
    /\ sched' = [sched EXCEPT !.starts = @ + 1,
                              !.starting = IF thread_is_alive(sched) THEN @ ELSE @ + 1,
                              !.last = "start_check"]
    /\ UNCHANGED <<engine, net>>

\* start(), lines 42-44: the stop event is cleared, the thread created and started
StartThread ==
    /\ sched.starting > 0
    /\ sched.created < MaxWorkers
    /\ LET w == sched.created + 1
       IN sched' = [sched EXCEPT !._stop_event = FALSE,
                                 !._thread = w,
                                 !.worker[w].pc = "top",
                                 !.created = w,
                                 !.starting = @ - 1,
                                 !.last = "start_thread"]
    /\ UNCHANGED <<engine, net>>

\* stop(), line 55
StopSet ==
    /\ sched.stops < MaxStops
    /\ sched' = [sched EXCEPT !._stop_event = TRUE,
                              !.stops = @ + 1,
                              !.stopping = @ + 1,
                              !.last = "stop_set"]
    /\ UNCHANGED <<engine, net>>

\* stop(), line 56; the join that follows changes nothing
StopWake ==
    /\ sched.stopping > 0
    /\ sched' = [NoteSet(sched) EXCEPT !._trigger_event = TRUE,
                                       !.stopping = @ - 1,
                                       !.last = "stop_wake"]
    /\ UNCHANGED <<engine, net>>

\* trigger_now() called by any thread
TriggerNow ==
    /\ sched.triggers + sched.handler < MaxTriggers
    /\ sched' = [trigger_now(NoteSet(sched)) EXCEPT !.triggers = @ + 1,
                                                    !.pending = TRUE,
                                                    !.last = "trigger_now"]
    /\ UNCHANGED <<engine, net>>

\* POST /trigger, lines 64-68: 409 when a cycle is running
HandlerCheck ==
    /\ sched.triggers + sched.handler < MaxTriggers
    /\ sched' = IF is_running(sched)
                THEN [sched EXCEPT !.last = "handler_409"]
                ELSE [sched EXCEPT !.handler = @ + 1, !.last = "handler_check"]
    /\ UNCHANGED <<engine, net>>

\* POST /trigger, lines 70-71: trigger_now, then 200
HandlerTrigger ==
    /\ sched.handler > 0
    /\ sched' = [trigger_now(NoteSet(sched)) EXCEPT !.handler = @ - 1,
                                                    !.triggers = @ + 1,
                                                    !.pending = TRUE,
                                                    !.last = "handler_trigger"]
    /\ UNCHANGED <<engine, net>>

\* _run_loop, lines 134-137: the loop test, then next_run
WorkerTop(w) ==
    /\ sched.worker[w].pc = "top"
    /\ sched' = IF sched._stop_event
                THEN [sched EXCEPT !.worker[w].pc = "exited", !.last = "exit"]
                ELSE [sched EXCEPT !.worker[w].pc = "wait",
                                   !.period_has_call = FALSE,
                                   !.last = "wait"]
    /\ UNCHANGED <<engine, net>>

\* _run_loop, lines 140-142: the wait returns True as soon as the event is set
WorkerWaitTriggered(w) ==
    /\ sched.worker[w].pc = "wait"
    /\ sched._trigger_event
    /\ sched' = [sched EXCEPT !.worker[w].pc = "clear",
                              !.worker[w].triggered = TRUE,
                              !.last = "woken"]
    /\ UNCHANGED <<engine, net>>

\* _run_loop, lines 140-142: the interval passed with the event not set
WorkerWaitTimeout(w) ==
    /\ sched.worker[w].pc = "wait"
    /\ ~sched._trigger_event
    /\ sched' = [sched EXCEPT !.worker[w].pc = "clear",
                              !.worker[w].triggered = FALSE,
                              !.last = "timeout"]
    /\ UNCHANGED <<engine, net>>

\* _run_loop, line 143
WorkerClear(w) ==
    /\ sched.worker[w].pc = "clear"
    /\ sched' = [sched EXCEPT !._trigger_event = trigger_event_clear(@),
                              !.worker[w].pc = "check",
                              !.last = "clear"]
    /\ UNCHANGED <<engine, net>>

\* _run_loop, lines 145-146
WorkerCheckStop(w) ==
    /\ sched.worker[w].pc = "check"
    /\ sched' = IF sched._stop_event
                THEN [sched EXCEPT !.worker[w].pc = "exited", !.last = "exit"]
                ELSE [sched EXCEPT !.worker[w].pc = "mark", !.last = "checked"]
    /\ UNCHANGED <<engine, net>>

\* _run_loop, lines 154-158: _running is set and sync_func is called
WorkerMark(w) ==
    /\ sched.worker[w].pc = "mark"
    /\ sched' = [sched EXCEPT !._running = TRUE,
                              !.worker[w].pc = "cycle",
                              !.pending = FALSE,
                              !.trig_cycles = IF sched.worker[w].triggered THEN @ + 1 ELSE @,
                              !.last = "cycle_begins"]
    /\ UNCHANGED <<engine, net>>

\* _run_loop, lines 157-160: sync_func returns or raises
WorkerSync(w) ==
    /\ sched.worker[w].pc = "cycle"
    /\ \E outcome \in {"returned", "raised"} :
         sched' = [sched EXCEPT !.worker[w].pc = after_sync_func(outcome),
                                !.worker[w].last = outcome,
                                !.last = outcome]
    /\ UNCHANGED <<engine, net>>

\* _run_loop, lines 161-163: the finally clause
WorkerUnmark(w) ==
    /\ sched.worker[w].pc = "unmark"
    /\ sched' = [sched EXCEPT !._running = FALSE,
                              !.worker[w].pc = "top",
                              !.last = "unmark"]
    /\ UNCHANGED <<engine, net>>

WorkerStep(w) ==
    \/ WorkerTop(w)
    \/ WorkerWaitTriggered(w)
    \/ WorkerWaitTimeout(w)
    \/ WorkerClear(w)
    \/ WorkerCheckStop(w)
    \/ WorkerMark(w)
    \/ WorkerSync(w)
    \/ WorkerUnmark(w)

-----------------------------------------------------------------------------
\* TVMaze client (src/clients/tvmaze.py): the rate limiter and _request

\* Bounds of the client model: the limiter's parameters, scaled down, the
\* threads that use the limiter, and how far its clock and its calls go
max_requests == 2
window_seconds == 2
MaxThreads == 2
MaxNow == 4
MaxAcquires == 4
MaxWaitCalls == 2

Threads == 1..MaxThreads

\* RateLimiter.__init__, with its lock free (holder = 0) and no call made. time
\* is time.time(); admitted lists the times at which acquire let a caller go
\* (observation only).
NewRateLimiter ==
    [_timestamps |-> <<>>,
     holder |-> 0,
     thr |-> [t \in Threads |-> [pc |-> "idle", wake_at |-> 0, result |-> 0]],
     time |-> 0,
     admitted |-> <<>>,
     acquires |-> 0,
     wait_calls |-> 0,
     last |-> ""]

\* while self._timestamps and self._timestamps[0] < cutoff: popleft()
RECURSIVE popleft_expired(_, _)
popleft_expired(ts, cutoff) ==
    IF ts # <<>> /\ Head(ts) < cutoff THEN popleft_expired(Tail(ts), cutoff) ELSE ts

\* sleep_time of acquire after the first clean-up, 0 when below capacity
sleep_time(ts, now) ==
    LET ts1 == popleft_expired(ts, now - window_seconds)
    IN IF Len(ts1) >= max_requests /\ Head(ts1) + window_seconds - now > 0
       THEN Head(ts1) + window_seconds - now
       ELSE 0

\* The value wait_time returns
wait_time(ts, now) ==
    LET ts1 == popleft_expired(ts, now - window_seconds)
    IN IF Len(ts1) >= max_requests
       THEN Max(0, Head(ts1) + window_seconds - now)
       ELSE 0

\* time.time() advances
RlTick ==
    /\ net.rl.time < MaxNow
    /\ net' = [net EXCEPT !.rl.time = @ + 1, !.rl.last = "tick"]
    /\ UNCHANGED <<engine, sched>>

\* acquire, lines 49-62 and 71: the lock is taken, expired timestamps are
\* dropped, and the caller either is admitted at once or goes to sleep, still
\* holding the lock
AcquireEnter(t) ==
    /\ net.rl.thr[t].pc = "idle"
    /\ net.rl.holder = 0
    /\ net.rl.acquires < MaxAcquires
    /\ LET now == net.rl.time
           ts1 == popleft_expired(net.rl._timestamps, now - window_seconds)
       IN IF sleep_time(net.rl._timestamps, now) > 0
          THEN net' = [net EXCEPT !.rl._timestamps = ts1,
                                  !.rl.holder = t,
                                  !.rl.thr[t].pc = "sleeping",
                                  !.rl.thr[t].wake_at =
                                      now + sleep_time(net.rl._timestamps, now),
                                  !.rl.acquires = @ + 1,
                                  !.rl.last = "sleep"]
          ELSE net' = [net EXCEPT !.rl._timestamps = Append(ts1, now),
                                  !.rl.admitted = Append(@, now),
                                  !.rl.acquires = @ + 1,
                                  !.rl.last = "admitted"]
    /\ UNCHANGED <<engine, sched>>

\* acquire, lines 62-71: time.sleep returns at or after the requested time; the
\* timestamps are cleaned up again, the new one is added, the lock is released
AcquireWake(t) ==
    /\ net.rl.thr[t].pc = "sleeping"
    /\ net.rl.time >= net.rl.thr[t].wake_at
    /\ LET now == net.rl.time
           ts1 == popleft_expired(net.rl._timestamps, now - window_seconds)
       IN net' = [net EXCEPT !.rl._timestamps = Append(ts1, now),
                             !.rl.admitted = Append(@, now),
                             !.rl.holder = 0,
                             !.rl.thr[t].pc = "idle",
                             !.rl.last = "admitted"]
    /\ UNCHANGED <<engine, sched>>

\* wait_time is called: the caller arrives at `with self._lock`
WaitTimeCall(t) ==
    /\ net.rl.thr[t].pc = "idle"
    /\ net.rl.wait_calls < MaxWaitCalls
    /\ net' = [net EXCEPT !.rl.thr[t].pc = "wait_time",
                          !.rl.wait_calls = @ + 1,
                          !.rl.last = "wait_time_called"]
    /\ UNCHANGED <<engine, sched>>

\* wait_time, lines 83-95, once the lock is free
WaitTimeReturn(t) ==
    /\ net.rl.thr[t].pc = "wait_time"
    /\ net.rl.holder = 0
    /\ LET now == net.rl.time
       IN net' = [net EXCEPT !.rl._timestamps =
                                 popleft_expired(@, now - window_seconds),
                             !.rl.thr[t].pc = "idle",
                             !.rl.thr[t].result = wait_time(net.rl._timestamps, now),
                             !.rl.last = "wait_time_returned"]
    /\ UNCHANGED <<engine, sched>>

\* _request's default max_retries
max_retries == 3

\* What the session answers to one attempt: a response that is neither 429 nor
\* 5xx, a 429, a 5xx, requests.Timeout, or another RequestException
Responses == {"ok", "429", "5xx", "timeout", "error"}

\* No _request in progress. attempt is the loop variable, responses what was
\* answered so far (observation only), out how the call ended.
NoRequest == [pc |-> "idle", attempt |-> 0, responses |-> <<>>, out |-> ""]

\* One iteration of the loop of _request at loop index attempt, answered with
\* kind: "continue" for the next iteration, or how the call ends. The for loop
\* ends after index max_retries, and the statement after it raises
\* TVMazeRateLimitError.
request_attempt(attempt, kind) ==
    LET next == IF attempt < max_retries THEN "continue" ELSE "TVMazeRateLimitError"
    IN CASE kind = "429" -> next
         [] kind = "5xx" -> IF attempt < max_retries THEN "continue" ELSE "response"
         [] kind = "timeout" -> IF attempt >= max_retries THEN "Timeout" ELSE next
         [] kind = "error" -> "RequestException"
         [] OTHER -> "response"

\* _request is called
RequestBegin ==
    /\ net.req.pc # "attempt"
    /\ net' = [net EXCEPT !.req = [NoRequest EXCEPT !.pc = "attempt"]]
    /\ UNCHANGED <<engine, sched>>

\* One iteration: acquire, session.request, and the handling of its answer
RequestAttempt ==
    /\ net.req.pc = "attempt"
    /\ \E kind \in Responses :
         LET r == request_attempt(net.req.attempt, kind)
         IN net' = [net EXCEPT !.req.responses = Append(@, kind),
                               !.req.attempt = IF r = "continue" THEN @ + 1 ELSE @,
                               !.req.pc = IF r = "continue" THEN "attempt" ELSE "done",
                               !.req.out = IF r = "continue" THEN "" ELSE r]
    /\ UNCHANGED <<engine, sched>>

\* TVMazeClient.__init__
NewClient == [rl |-> NewRateLimiter, req |-> NoRequest]

-----------------------------------------------------------------------------
\* The sync engine

\* The daemon starts on a new cache (init_schema) or on a migrated one
Init ==
    /\ sched = NewScheduler
    /\ net = NewClient
    /\ db \in {<<>>} \cup {migrate_schema(d) : d \in V1Caches}
    /\ state = DefaultState
    /\ disk = [state_json |-> None, bak |-> None, tmp |-> None]
    /\ config \in Configs
    /\ clock = 0
    /\ pc = "startup"
    /\ loc = NoLoc
    /\ stats = ZeroStats
    /\ ev = Quiet
    /\ track = [i \in IDs |-> None]

\* datetime.now(UTC) advances, at any point
Tick ==
    /\ UNCHANGED <<sched, net>>
    /\ clock < MaxTime
    /\ clock' = clock + 1
    /\ ev' = Quiet
    /\ UNCHANGED <<db, state, disk, config, pc, loc, stats, track>>

\* ---- daemon start: main() up to scheduler.start() ----

\* Database.get_all_shows_with_tvdb: the cached shows that have a TVDB id
get_all_shows_with_tvdb(d) == {id \in DOMAIN d : d[id].tvdb_id # None}

\* check_filter_change, then the scan of sync_selections_to_sonarr: existing is
\* the set of TVDB ids Sonarr's get_all_series reports.
Startup ==
    /\ UNCHANGED <<sched, net>>
    /\ pc = "startup"
    /\ LET r == check_filter_change(state, config.filters, db)
           d1 == r[2]
       IN \E existing \in SUBSET {Val(d1[i].tvdb_id) : i \in get_all_shows_with_tvdb(d1)} :
            LET candidates ==
                    {i \in get_all_shows_with_tvdb(d1) :
                        /\ Val(d1[i].tvdb_id) \notin existing
                        /\ process(from_db_row(d1[i]), config.filters).decision = ADD}
            IN /\ state' = r[1]
               /\ db' = d1
               /\ loc' = [NoLoc EXCEPT !.queue = Ascending(candidates)]
               /\ pc' = IF candidates = {} THEN "idle" ELSE "reconcile"
               /\ track' = Tracked(d1, 0, None)
    /\ ev' = Quiet
    /\ UNCHANGED <<disk, config, clock, stats>>

\* One candidate of the add loop of sync_selections_to_sonarr
reconcile_one(d, cfg, id, now, la, aa) ==
    IF cfg.dry_run
    THEN [db |-> d, lookup |-> FALSE, add |-> FALSE, answer |-> "dry_run"]
    ELSE IF lookup_series(la, Val(d[id].tvdb_id)) = None
    THEN [db |-> d, lookup |-> TRUE, add |-> FALSE, answer |-> "lookup_none"]
    ELSE LET add_result == add_series(aa, id)
         IN [db |-> IF add_result.success
                    THEN mark_show_added(d, id, add_result.series_id, now)
                    ELSE IF add_result.exists
                    THEN update_show_status(d, id, EXISTS)
                    ELSE mark_show_failed(d, id, Val(add_result.error)),
             lookup |-> TRUE, add |-> TRUE, answer |-> aa]

ReconcileOne ==
    /\ UNCHANGED <<sched, net>>
    /\ pc = "reconcile"
    /\ loc.queue # <<>>
    /\ \E la \in LookupAnswers, aa \in AddAnswers :
         LET id == Head(loc.queue)
             r == reconcile_one(db, config, id, clock, la, aa)
         IN /\ db' = r.db
            /\ ev' = Event("reconcile", id, ADD, r.lookup, r.add, r.answer, <<>>)
            /\ track' = Tracked(r.db, 0, None)
    /\ loc' = [loc EXCEPT !.queue = Tail(loc.queue)]
    /\ pc' = IF Tail(loc.queue) = <<>> THEN "idle" ELSE "reconcile"
    /\ UNCHANGED <<state, disk, config, clock, stats>>

\* ---- sync_cycle ----

\* Variant: the initial sync resumes after the checkpointed page
resume_page_after_checkpoint(st) == st.last_tvmaze_page + 1

\* run_initial_sync: page = state.last_tvmaze_page
resume_page(st) == st.last_tvmaze_page

\* Variant: every cycle is an incremental sync
cycle_branch_always_incremental(st) == "incremental"

\* sync_cycle: `if state.last_full_sync is None` chooses the sync of the cycle
cycle_branch(st) == IF st.last_full_sync = None THEN "initial" ELSE "incremental"

SyncCycleStart ==
    /\ UNCHANGED <<sched, net>>
    /\ pc = "idle"
    /\ stats' = ZeroStats
    /\ loc' = [NoLoc EXCEPT !.page = resume_page(state),
                            !.pending_at_start =
                                {id \in DOMAIN db : db[id].processing_status = PENDING},
                            !.cached_at_start = DOMAIN db]
    /\ pc' = cycle_branch(state)
    /\ ev' = Quiet
    /\ UNCHANGED <<db, state, disk, config, clock, track>>

\* An exception leaves sync_cycle: the cycle is recorded as failed
CycleFails ==
    /\ UNCHANGED <<sched, net>>
    /\ pc' = "idle"
    /\ loc' = NoLoc
    /\ stats' = ZeroStats
    /\ ev' = Quiet
    /\ UNCHANGED <<db, state, disk, config, clock, track>>

\* The shows of page p of the index: TVMaze pages by id
PageIds(p) == {i \in IDs : i \div PageSize = p}

\* ---- run_initial_sync ----

InitialPage ==
    /\ UNCHANGED <<sched, net>>
    /\ pc = "initial"
    /\ PageIds(loc.page) # {}
    /\ loc' = [loc EXCEPT !.queue = Ascending(PageIds(loc.page))]
    /\ pc' = "initial_page"
    /\ ev' = Quiet
    /\ UNCHANGED <<db, state, disk, config, clock, stats, track>>

\* An empty page ends the paging; sync_cycle then sets last_full_sync
InitialEnd ==
    /\ UNCHANGED <<sched, net>>
    /\ pc = "initial"
    /\ PageIds(loc.page) = {}
    /\ state' = [state EXCEPT !.last_full_sync = Some(clock)]
    /\ pc' = "retry"
    /\ ev' = Quiet
    /\ UNCHANGED <<db, disk, config, clock, loc, stats, track>>

\* TVMazeRateLimitError: sleep and fetch the same page again
InitialRateLimited ==
    /\ UNCHANGED <<sched, net>>
    /\ pc = "initial"
    /\ ev' = Quiet
    /\ UNCHANGED <<db, state, disk, config, clock, pc, loc, stats, track>>

\* Any other TVMazeError leaves run_initial_sync
InitialError ==
    /\ pc = "initial"
    /\ CycleFails

\* One entry of the page: it is parsed and processed, or parsing it raises and
\* the loop logs the error and goes on
InitialProcess ==
    /\ UNCHANGED <<sched, net>>
    /\ pc = "initial_page"
    /\ loc.queue # <<>>
    /\ \/ \E data \in Records(Head(loc.queue)), la \in LookupAnswers, aa \in AddAnswers :
            LET show == from_tvmaze_response(data)
                r == process_single_show(db, config, show, stats, clock, la, aa)
            IN /\ db' = r.db
               /\ stats' = r.stats
               /\ state' = [state EXCEPT !.highest_tvmaze_id = Max(@, show.tvmaze_id)]
               /\ ev' = Event("process", show.tvmaze_id, r.decision, r.lookup, r.add,
                              r.answer, <<>>)
               /\ track' = Tracked(r.db, show.tvmaze_id, show.tvdb_id)
       \/ /\ ev' = Quiet
          /\ UNCHANGED <<db, stats, state, track>>
       \/ \E data \in Records(Head(loc.queue)) :
            LET r == process_single_show_raises(db, from_tvmaze_response(data), stats)
            IN /\ db' = r.db
               /\ stats' = r.stats
               /\ track' = Tracked(r.db, 0, None)
               /\ ev' = Quiet
               /\ UNCHANGED state
    /\ loc' = [loc EXCEPT !.queue = Tail(loc.queue)]
    /\ UNCHANGED <<disk, config, clock, pc>>

\* Variant: the checkpoint records the page that comes next
checkpoint_next_page(st, page) == [st EXCEPT !.last_tvmaze_page = page + 1]

\* run_initial_sync: state.last_tvmaze_page = page, after the shows of the page
checkpoint(st, page) == [st EXCEPT !.last_tvmaze_page = page]

InitialCheckpoint ==
    /\ UNCHANGED <<sched, net>>
    /\ pc = "initial_page"
    /\ loc.queue = <<>>
    /\ state' = checkpoint(state, loc.page)
    /\ disk' = save(disk, state')
    /\ loc' = [loc EXCEPT !.page = loc.page + 1]
    /\ pc' = "initial"
    /\ ev' = Quiet
    /\ UNCHANGED <<db, config, clock, stats, track>>

\* ---- run_incremental_sync ----

\* get_updates answers; the loop then visits the ids in ascending order, and
\* whether an id is in the feed, and with which timestamp, is drawn when the loop
\* reaches it (IncrementalOne, IncrementalAbsent).
IncrementalUpdates ==
    /\ UNCHANGED <<sched, net>>
    /\ pc = "incremental"
    /\ loc' = [loc EXCEPT !.queue = Ascending(IDs)]
    /\ pc' = "updates"
    /\ ev' = Quiet
    /\ UNCHANGED <<db, state, disk, config, clock, stats, track>>

\* Variant: a show whose cached timestamp equals the feed's is fetched too
is_new_or_updated_or_same(existing, updated_at) ==
    IF existing = None
    THEN TRUE
    ELSE (IF Val(existing).tvmaze_updated_at # None
          THEN Val(Val(existing).tvmaze_updated_at) ELSE 0) <= updated_at

\* run_incremental_sync: `not existing or (existing.tvmaze_updated_at or 0) <
\* updated_at`
is_new_or_updated(existing, updated_at) ==
    IF existing = None
    THEN TRUE
    ELSE (IF Val(existing).tvmaze_updated_at # None
          THEN Val(Val(existing).tvmaze_updated_at) ELSE 0) < updated_at

IncrementalError ==
    /\ pc = "incremental"
    /\ CycleFails

IncrementalOne ==
    /\ UNCHANGED <<sched, net>>
    /\ pc = "updates"
    /\ loc.queue # <<>>
    /\ \E updated_at \in 1..(MaxUpdated + 1) :
       LET tvmaze_id == Head(loc.queue)
           existing == get_show(db, tvmaze_id)
       IN IF is_new_or_updated(existing, updated_at)
          THEN \/ \E data \in Records(tvmaze_id), la \in LookupAnswers, aa \in AddAnswers :
                    LET show == from_tvmaze_response(data)
                        r == process_single_show(db, config, show, stats, clock, la, aa)
                    IN /\ db' = r.db
                       /\ stats' = r.stats
                       /\ state' = [state EXCEPT !.highest_tvmaze_id = Max(@, tvmaze_id)]
                       /\ ev' = Event("process", tvmaze_id, r.decision, r.lookup, r.add,
                                      r.answer, <<>>)
                       /\ track' = Tracked(r.db, tvmaze_id, show.tvdb_id)
               \/ \* TVMazeNotFoundError, TVMazeRateLimitError or another exception
                  /\ ev' = Quiet
                  /\ UNCHANGED <<db, stats, state, track>>
               \/ \E data \in Records(tvmaze_id) :
                    LET r == process_single_show_raises(db, from_tvmaze_response(data),
                                                        stats)
                    IN /\ db' = r.db
                       /\ stats' = r.stats
                       /\ track' = Tracked(r.db, 0, None)
                       /\ ev' = Quiet
                       /\ UNCHANGED state
          ELSE /\ ev' = Quiet
               /\ UNCHANGED <<db, stats, state, track>>
    /\ loc' = [loc EXCEPT !.queue = Tail(loc.queue)]
    /\ UNCHANGED <<disk, config, clock, pc>>

\* The feed has no entry for the next id
IncrementalAbsent ==
    /\ UNCHANGED <<sched, net>>
    /\ pc = "updates"
    /\ loc.queue # <<>>
    /\ loc' = [loc EXCEPT !.queue = Tail(loc.queue)]
    /\ ev' = Quiet
    /\ UNCHANGED <<db, state, disk, config, clock, pc, stats, track>>

\* ---- check_for_new_shows ----

ProbeBegin ==
    /\ UNCHANGED <<sched, net>>
    /\ pc = "updates"
    /\ loc.queue = <<>>
    /\ loc' = [loc EXCEPT !.current_id = state.highest_tvmaze_id + 1,
                          !.consecutive_not_found = 0]
    /\ pc' = "probe"
    /\ ev' = Quiet
    /\ UNCHANGED <<db, state, disk, config, clock, stats, track>>

ProbeFound ==
    /\ UNCHANGED <<sched, net>>
    /\ pc = "probe"
    /\ loc.consecutive_not_found < max_not_found
    /\ loc.current_id \in IDs
    /\ \E data \in Records(loc.current_id), la \in LookupAnswers, aa \in AddAnswers :
         LET show == from_tvmaze_response(data)
             r == process_single_show(db, config, show, stats, clock, la, aa)
         IN /\ db' = r.db
            /\ stats' = r.stats
            /\ state' = [state EXCEPT !.highest_tvmaze_id = Max(@, loc.current_id)]
            /\ ev' = Event("process", show.tvmaze_id, r.decision, r.lookup, r.add, r.answer,
                           <<>>)
            /\ track' = Tracked(r.db, show.tvmaze_id, show.tvdb_id)
    /\ loc' = [loc EXCEPT !.consecutive_not_found = 0, !.current_id = @ + 1]
    /\ UNCHANGED <<disk, config, clock, pc>>

\* An except clause that counts a miss and moves to the next id. op names the
\* response for the observation; processed tells whether the exception may
\* come from process_single_show, after the show was fetched and stored.
ProbeSkip(op, processed) ==
    /\ UNCHANGED <<sched, net>>
    /\ pc = "probe"
    /\ loc.consecutive_not_found < max_not_found
    /\ \/ UNCHANGED <<db, stats, track>>
       \/ /\ processed
          /\ loc.current_id \in IDs
          /\ \E data \in Records(loc.current_id) :
               LET r == process_single_show_raises(db, from_tvmaze_response(data), stats)
               IN /\ db' = r.db
                  /\ stats' = r.stats
                  /\ track' = Tracked(r.db, 0, None)
    /\ ev' = Event(op, 0, "", FALSE, FALSE, "", <<>>)
    /\ loc' = [loc EXCEPT !.consecutive_not_found = @ + 1, !.current_id = @ + 1]
    /\ UNCHANGED <<state, disk, config, clock, pc>>

\* TVMazeNotFoundError, or any other exception but the rate limit: one raised by
\* the request or the parsing, or one raised in process_single_show
ProbeMiss ==
    /\ pc = "probe"
    /\ ProbeSkip("", TRUE)

\* except TVMazeNotFoundError: the request was answered 404
ProbeNotFound ==
    /\ pc = "probe"
    /\ ProbeSkip("not_found", FALSE)

\* except Exception: any other failure of the request, of the parsing or of
\* process_single_show
ProbeError ==
    /\ pc = "probe"
    /\ ProbeSkip("error", TRUE)

ProbeRateLimited ==
    /\ UNCHANGED <<sched, net>>
    /\ pc = "probe"
    /\ loc.consecutive_not_found < max_not_found
    /\ ev' = Quiet
    /\ UNCHANGED <<db, state, disk, config, clock, pc, loc, stats, track>>

ProbeDone ==
    /\ UNCHANGED <<sched, net>>
    /\ pc = "probe"
    /\ loc.consecutive_not_found >= max_not_found
    /\ pc' = "retry"
    /\ ev' = Quiet
    /\ UNCHANGED <<db, state, disk, config, clock, loc, stats, track>>

\* ---- retry_pending_tvdb ----

\* Variant: the abandonment loop logs its warning and marks nothing
abandon_logs_only(d, now, abandon_after) == d

\* The abandonment loop: every show get_shows_to_abandon returns is failed
abandon(d, now, abandon_after) ==
    [id \in DOMAIN d |->
        IF id \in get_shows_to_abandon(d, now, abandon_after)
        THEN [processing_status |-> FAILED,
              error_message |-> Some(<<"No TVDB ID after ", abandon_after>>)] @@ d[id]
        ELSE d[id]]

RetryBegin ==
    /\ UNCHANGED <<sched, net>>
    /\ pc = "retry"
    /\ LET now == clock
           d1 == abandon(db, now, AbandonAfter)
           shows_to_retry == get_shows_for_retry(d1, now, AbandonAfter)
       IN /\ db' = d1
          /\ loc' = [loc EXCEPT !.now = now,
                                !.shows_to_abandon =
                                    [id \in get_shows_to_abandon(db, now, AbandonAfter) |->
                                        from_db_row(db[id])],
                                !.queue = Ascending(shows_to_retry)]
          /\ pc' = IF shows_to_retry = {} THEN "finalize" ELSE "retry_loop"
          /\ ev' = Quiet
          /\ track' = Tracked(d1, 0, None)
    /\ UNCHANGED <<state, disk, config, clock, stats>>

\* Variant: every error of the upstream request is handled as NotFound is handled
retry_one_errors_remove(d, cfg, show, st, now, wall, answer, data, la, aa) ==
    [db |-> IF answer = "ok" THEN d
            ELSE mark_show_failed(d, show.tvmaze_id, <<"Removed from TVMaze">>),
     stats |-> st, decision |-> "", lookup |-> FALSE, add |-> FALSE,
     answer |-> IF answer = "ok" THEN "AttributeError" ELSE answer,
     upserted |-> FALSE]

\* The body of the retry loop for the Show object show (read from the cache when
\* the pass began) and the upstream answer: "ok" with record data, "not_found",
\* or another error. Reading show.pending_since raises AttributeError when the
\* Show object has no such attribute, and the loop's except clause logs it.
retry_one(d, cfg, show, st, now, wall, answer, data, la, aa) ==
    LET id == show.tvmaze_id
        quiet(d2) == [db |-> d2, stats |-> st, decision |-> "", lookup |-> FALSE,
                      add |-> FALSE, answer |-> answer, upserted |-> FALSE]
    IN IF answer = "not_found"
       THEN quiet(mark_show_failed(d, id, <<"Removed from TVMaze">>))
       ELSE IF answer # "ok"
       THEN quiet(d)
       ELSE IF "pending_since" \notin DOMAIN show
       THEN [quiet(d) EXCEPT !.answer = "AttributeError"]
       ELSE LET updated_show ==
                    [from_tvmaze_response(data) EXCEPT !.retry_count = show.retry_count]
                d1 == upsert_show(d, updated_show)
                d2 == increment_retry_count(d1, id)
            IN IF updated_show.tvdb_id # None
               THEN process_single_show(d2, cfg, updated_show, st, wall, la, aa)
                        @@ [upserted |-> TRUE]
               ELSE [quiet(mark_show_pending_tvdb(d2, id, now + RetryDelay, now))
                        EXCEPT !.upserted = TRUE]

RetryOne ==
    /\ UNCHANGED <<sched, net>>
    /\ pc = "retry_loop"
    /\ loc.queue # <<>>
    /\ \E answer \in {"ok", "not_found", "error"}, data \in Records(Head(loc.queue)),
          la \in LookupAnswers, aa \in AddAnswers :
         LET id == Head(loc.queue)
             show == from_db_row(db[id])
             r == retry_one(db, config, show, stats, loc.now, clock, answer, data, la, aa)
         IN /\ db' = r.db
            /\ stats' = r.stats
            /\ ev' = Event("retry", id, r.decision, r.lookup, r.add, r.answer,
                           IF answer = "ok" THEN <<answer, data.thetvdb, la, aa>>
                           ELSE <<answer>>)
            /\ track' = IF r.upserted THEN Tracked(r.db, id, data.thetvdb)
                        ELSE Tracked(r.db, 0, None)
    /\ loc' = [loc EXCEPT !.queue = Tail(loc.queue)]
    /\ pc' = IF Tail(loc.queue) = <<>> THEN "finalize" ELSE "retry_loop"
    /\ UNCHANGED <<state, disk, config, clock>>

\* The end of a successful cycle: last_incremental_sync, save, backup
Finalize ==
    /\ UNCHANGED <<sched, net>>
    /\ pc = "finalize"
    /\ state' = [state EXCEPT !.last_incremental_sync = Some(clock)]
    /\ disk' = backup(save(disk, state'))
    /\ pc' = "idle"
    /\ loc' = NoLoc
    /\ stats' = ZeroStats
    /\ ev' = Quiet
    /\ UNCHANGED <<db, config, clock, track>>

\* ---- HTTP surface (src/server.py) ----

\* POST /refilter, served by a thread of its own once the server is up
Refilter ==
    /\ UNCHANGED <<sched, net>>
    /\ pc \notin {"startup", "reconcile"}
    /\ db' = re_evaluate_filtered_shows(db, config.filters)
    /\ ev' = Quiet
    /\ track' = Tracked(db', 0, None)
    /\ UNCHANGED <<state, disk, config, clock, pc, loc, stats>>

\* ---- process lifetime ----

\* SIGTERM or SIGINT between cycles: the state is saved; the daemon is then
\* started again, possibly with edited filters (a deployment keeps its dry_run
\* setting).
Shutdown ==
    /\ UNCHANGED <<sched, net>>
    /\ pc = "idle"
    /\ disk' = save(disk, state)
    /\ state' = load(disk')
    /\ config' \in {c \in Configs : c.dry_run = config.dry_run}
    /\ pc' = "startup"
    /\ loc' = NoLoc
    /\ stats' = ZeroStats
    /\ ev' = Quiet
    /\ UNCHANGED <<db, clock, track>>

\* The process dies at any point and is started again with the same configuration
Crash ==
    /\ UNCHANGED <<sched, net>>
    /\ state' = load(disk)
    /\ pc' = "startup"
    /\ loc' = NoLoc
    /\ stats' = ZeroStats
    /\ ev' = Quiet
    /\ UNCHANGED <<db, disk, config, clock, track>>

Next ==
    \/ Tick
    \/ Startup
    \/ ReconcileOne
    \/ SyncCycleStart
    \/ InitialPage
    \/ InitialEnd
    \/ InitialRateLimited
    \/ InitialError
    \/ InitialProcess
    \/ InitialCheckpoint
    \/ IncrementalUpdates
    \/ IncrementalError
    \/ IncrementalOne
    \/ IncrementalAbsent
    \/ ProbeBegin
    \/ ProbeFound
    \/ ProbeMiss
    \/ ProbeRateLimited
    \/ ProbeDone
    \/ RetryBegin
    \/ RetryOne
    \/ Finalize
    \/ Refilter
    \/ Shutdown
    \/ Crash

Spec == Init /\ [][Next]_vars

\* The new-show probe on its own, with each response named in the observation.
\* It starts where an incremental sync has gone through the updates feed, after a
\* full sync that stored nothing.
ProbeInit ==
    /\ sched = NewScheduler
    /\ net = NewClient
    /\ db = <<>>
    /\ config \in Configs
    /\ state = [DefaultState EXCEPT !.last_full_sync = Some(0),
                                    !.last_incremental_sync = Some(0),
                                    !.last_filter_hash =
                                        Some(compute_filter_hash(config.filters))]
    /\ disk = [state_json |-> Some(File(state)), bak |-> Some(File(state)), tmp |-> None]
    /\ clock = 0
    /\ pc = "updates"
    /\ loc = NoLoc
    /\ stats = ZeroStats
    /\ ev = Quiet
    /\ track = [i \in IDs |-> None]

ProbeNext ==
    \/ ProbeBegin
    \/ ProbeFound
    \/ ProbeNotFound
    \/ ProbeError
    \/ ProbeRateLimited
    \/ ProbeDone

ProbeSpec == ProbeInit /\ [][ProbeNext]_vars

\* One thread's calls of TVMazeClient._request, with any answers of the service
RequestInit ==
    /\ ProbeInit
    /\ config = [dry_run |-> TRUE, filters |-> FilterEnglish]

RequestNext ==
    \/ RequestBegin
    \/ RequestAttempt

RequestSpec == RequestInit /\ [][RequestNext]_vars

\* The scheduler on its own: any thread may call start, stop and trigger_now, the
\* HTTP server handles POST /trigger, and sync_func is any function that returns
\* or raises. The engine does not move.
SchedInit ==
    /\ Init
    /\ db = <<>>
    /\ config = [dry_run |-> TRUE, filters |-> FilterEnglish]

SchedNext ==
    \/ StartCheck
    \/ StartThread
    \/ StopSet
    \/ StopWake
    \/ TriggerNow
    \/ HandlerCheck
    \/ HandlerTrigger
    \/ \E w \in Workers : WorkerTop(w)
    \/ \E w \in Workers : WorkerWaitTriggered(w)
    \/ \E w \in Workers : WorkerWaitTimeout(w)
    \/ \E w \in Workers : WorkerClear(w)
    \/ \E w \in Workers : WorkerCheckStop(w)
    \/ \E w \in Workers : WorkerMark(w)
    \/ \E w \in Workers : WorkerSync(w)
    \/ \E w \in Workers : WorkerUnmark(w)

SchedSpec == SchedInit /\ [][SchedNext]_vars

\* The scheduler as main() uses it: start() has been called once and is not
\* called again.
StartedInit ==
    /\ sched = StartedScheduler
    /\ net = NewClient
    /\ db = <<>>
    /\ state = DefaultState
    /\ disk = [state_json |-> None, bak |-> None, tmp |-> None]
    /\ config = [dry_run |-> TRUE, filters |-> FilterEnglish]
    /\ clock = 0
    /\ pc = "startup"
    /\ loc = NoLoc
    /\ stats = ZeroStats
    /\ ev = Quiet
    /\ track = [i \in IDs |-> None]

StartedNext ==
    \/ StopSet
    \/ StopWake
    \/ TriggerNow
    \/ HandlerCheck
    \/ HandlerTrigger
    \/ \E w \in Workers : WorkerTop(w)
    \/ \E w \in Workers : WorkerWaitTriggered(w)
    \/ \E w \in Workers : WorkerWaitTimeout(w)
    \/ \E w \in Workers : WorkerClear(w)
    \/ \E w \in Workers : WorkerCheckStop(w)
    \/ \E w \in Workers : WorkerMark(w)
    \/ \E w \in Workers : WorkerSync(w)
    \/ \E w \in Workers : WorkerUnmark(w)

StartedSpec == StartedInit /\ [][StartedNext]_vars

\* A started thread keeps running, the interval elapses, and sync_func ends
StartedFair == StartedSpec /\ \A w \in Workers : WF_vars(WorkerStep(w))

\* The rate limiter on its own: threads call acquire and wait_time while time
\* passes.
LimiterInit ==
    /\ StartedInit
    /\ net = NewClient

LimiterNext ==
    \/ RlTick
    \/ \E t \in Threads : AcquireEnter(t)
    \/ \E t \in Threads : AcquireWake(t)
    \/ \E t \in Threads : WaitTimeCall(t)
    \/ \E t \in Threads : WaitTimeReturn(t)

LimiterSpec == LimiterInit /\ [][LimiterNext]_vars

-----------------------------------------------------------------------------
\* The state file (src/state.py) under the threads that save it

\* Bound: the pages the initial sync checkpoints
MaxPage == 2

\* The threads that call state.save: the scheduler's worker (the checkpoint of
\* run_initial_sync and the end of sync_cycle) and the main thread in the signal
\* handler, which saves after scheduler.stop(timeout=300) whether or not the
\* worker has finished.
Savers == {"worker", "shutdown"}

\* The locals of a thread in save: where it is, which file its handle is on
\* ("" none, "tmp" the one named state.json.tmp, "state_json" the one named
\* state.json, "orphan" one that has no name any more), the document it
\* serialised, and what state.json held when the call began.
NoSave == [pc |-> "idle", fd |-> "", doc |-> to_dict(DefaultState), prev |-> None]

\* The handles after tmp_path.replace(path): the file named state.json.tmp is
\* now named state.json, the file that was state.json has no name
fds_after_replace(l) ==
    [t \in Savers |->
        [l[t] EXCEPT !.fd = CASE @ = "tmp" -> "state_json"
                             [] @ = "state_json" -> "orphan"
                             [] OTHER -> @]]

\* The handles after tmp_path.unlink()
fds_after_unlink(l) ==
    [t \in Savers |-> [l[t] EXCEPT !.fd = IF @ = "tmp" THEN "orphan" ELSE @]]

SaveFrame == UNCHANGED <<db, config, clock, pc, stats, ev, track, sched, net>>

\* run_initial_sync: state.last_tvmaze_page = page, before the checkpoint
CheckpointPage ==
    /\ loc["worker"].pc \in {"idle", "failed"}
    /\ state.last_full_sync = None
    /\ state.last_tvmaze_page < MaxPage
    /\ state' = [state EXCEPT !.last_tvmaze_page = @ + 1]
    /\ loc' = [loc EXCEPT !["worker"].pc = "idle"]
    /\ UNCHANGED disk
    /\ SaveFrame

\* sync_cycle: last_full_sync (after an initial sync) and last_incremental_sync
\* are set, before the save that ends the cycle
CycleEnd ==
    /\ loc["worker"].pc \in {"idle", "failed"}
    /\ state.last_incremental_sync = None
    /\ state' = [state EXCEPT !.last_full_sync = Some(MaxTime),
                              !.last_incremental_sync = Some(MaxTime)]
    /\ loc' = [loc EXCEPT !["worker"].pc = "idle"]
    /\ UNCHANGED disk
    /\ SaveFrame

\* save, open(tmp_path, 'w')
SaveOpen(t) ==
    /\ loc[t].pc = "idle"
    /\ disk' = open_tmp(disk)
    /\ loc' = [loc EXCEPT ![t] = [pc |-> "opened", fd |-> "tmp",
                                  doc |-> to_dict(DefaultState),
                                  prev |-> disk.state_json]]
    /\ UNCHANGED state
    /\ SaveFrame

\* save, open raises IOError: nothing was opened
SaveOpenFails(t) ==
    /\ loc[t].pc = "idle"
    /\ loc' = [loc EXCEPT ![t] = [NoSave EXCEPT !.pc = "except",
                                                !.prev = disk.state_json]]
    /\ UNCHANGED <<state, disk>>
    /\ SaveFrame

\* save, json.dump(self.to_dict(), f): the text goes to the handle's buffer
SaveDump(t) ==
    /\ loc[t].pc = "opened"
    /\ loc' = [loc EXCEPT ![t].pc = "dumped", ![t].doc = to_dict(state)]
    /\ UNCHANGED <<state, disk>>
    /\ SaveFrame

\* save, the with block ends: the buffer is written to the file of the handle
\* and the handle is closed
SaveClose(t) ==
    /\ loc[t].pc = "dumped"
    /\ disk' = CASE loc[t].fd = "tmp" -> flush_tmp(disk, loc[t].doc)
                 [] loc[t].fd = "state_json" -> flush_state_json(disk, loc[t].doc)
                 [] OTHER -> disk
    /\ loc' = [loc EXCEPT ![t].pc = "closed", ![t].fd = ""]
    /\ UNCHANGED state
    /\ SaveFrame

\* save, the write raises IOError (no space left): the file stays as it is
SaveCloseFails(t) ==
    /\ loc[t].pc = "dumped"
    /\ loc' = [loc EXCEPT ![t].pc = "except", ![t].fd = ""]
    /\ UNCHANGED <<state, disk>>
    /\ SaveFrame

\* save, tmp_path.replace(path)
SaveReplace(t) ==
    /\ loc[t].pc = "closed"
    /\ disk.tmp # None
    /\ disk' = replace_tmp(disk)
    /\ loc' = [fds_after_replace(loc) EXCEPT ![t].pc = "idle"]
    /\ UNCHANGED state
    /\ SaveFrame

\* save, tmp_path.replace(path) raises: FileNotFoundError when state.json.tmp
\* is no longer there, or another IOError
SaveReplaceFails(t) ==
    /\ loc[t].pc = "closed"
    /\ loc' = [loc EXCEPT ![t].pc = "except"]
    /\ UNCHANGED <<state, disk>>
    /\ SaveFrame

\* save, except IOError: state.json.tmp is removed if it exists and the error is
\* raised again
SaveExcept(t) ==
    /\ loc[t].pc = "except"
    /\ disk' = unlink_tmp(disk)
    /\ loc' = [fds_after_unlink(loc) EXCEPT ![t].pc = "failed"]
    /\ UNCHANGED state
    /\ SaveFrame

\* The process dies at any point of a save and is started again
SaveCrash ==
    /\ \E t \in Savers : loc[t].pc \notin {"idle", "failed"}
    /\ state' = load(disk)
    /\ loc' = [t \in Savers |-> NoSave]
    /\ UNCHANGED disk
    /\ SaveFrame

SaveInit ==
    /\ sched = StartedScheduler
    /\ net = NewClient
    /\ db = <<>>
    /\ state = DefaultState
    /\ disk = [state_json |-> None, bak |-> None, tmp |-> None]
    /\ config = [dry_run |-> TRUE, filters |-> FilterEnglish]
    /\ clock = 0
    /\ pc = "idle"
    /\ loc = [t \in Savers |-> NoSave]
    /\ stats = ZeroStats
    /\ ev = Quiet
    /\ track = [i \in IDs |-> None]

SaveNext ==
    \/ CheckpointPage
    \/ CycleEnd
    \/ \E t \in Savers : SaveOpen(t)
    \/ \E t \in Savers : SaveOpenFails(t)
    \/ \E t \in Savers : SaveDump(t)
    \/ \E t \in Savers : SaveClose(t)
    \/ \E t \in Savers : SaveCloseFails(t)
    \/ \E t \in Savers : SaveReplace(t)
    \/ \E t \in Savers : SaveReplaceFails(t)
    \/ \E t \in Savers : SaveExcept(t)
    \/ SaveCrash

SaveSpec == SaveInit /\ [][SaveNext]_vars

\* The start of the process on whatever the storage directory holds: each of
\* state.json and state.json.bak is absent or holds a document, whole or damaged.
LoadStates ==
    {[DefaultState EXCEPT !.last_tvmaze_page = p, !.last_full_sync = f] :
        p \in {0, MaxPage}, f \in {None, Some(MaxTime)}}

LoadFiles ==
    {[doc |-> to_dict(st), defect |-> d, len |-> DocLen(to_dict(st))] :
        st \in LoadStates, d \in Defects}

LoadInit ==
    /\ sched = NewScheduler
    /\ net = NewClient
    /\ db = <<>>
    /\ state = DefaultState
    /\ disk \in [state_json : {None} \cup {Some(f) : f \in LoadFiles},
                  bak : {None} \cup {Some(f) : f \in LoadFiles},
                  tmp : {None}]
    /\ config = [dry_run |-> TRUE, filters |-> FilterEnglish]
    /\ clock = 0
    /\ pc = "load"
    /\ loc = NoLoc
    /\ stats = ZeroStats
    /\ ev = Quiet
    /\ track = [i \in IDs |-> None]

\* main: state = SyncState.load(...) returns
LoadReturns ==
    /\ pc = "load"
    /\ ~load_raises(disk)
    /\ state' = load(disk)
    /\ pc' = "load_returned"
    /\ UNCHANGED <<db, disk, config, clock, loc, stats, ev, track, sched, net>>

\* main: SyncState.load(...) ends with an exception, and so does the process
LoadRaises ==
    /\ pc = "load"
    /\ load_raises(disk)
    /\ pc' = "load_raised"
    /\ UNCHANGED <<db, state, disk, config, clock, loc, stats, ev, track, sched, net>>

LoadNext ==
    \/ LoadReturns
    \/ LoadRaises

LoadSpec == LoadInit /\ [][LoadNext]_vars

-----------------------------------------------------------------------------
\* The paging of run_initial_sync over an index of several pages, page by page:
\* pages 0..MaxPage hold shows and the page after them is empty. track is the set
\* of pages whose shows have all been processed.

PagingFrame == UNCHANGED <<db, config, clock, stats, sched, net>>

\* sync_cycle while last_full_sync is null: run_initial_sync starts at the cursor
PagingCycleStart ==
    /\ pc = "idle"
    /\ cycle_branch(state) = "initial"
    /\ pc' = "initial"
    /\ loc' = [page |-> resume_page(state), done |-> FALSE]
    /\ ev' = Quiet
    /\ UNCHANGED <<state, disk, track>>
    /\ PagingFrame

\* tvmaze.get_shows_page(page) returns shows
PagingFetch ==
    /\ pc = "initial"
    /\ loc.page <= MaxPage
    /\ pc' = "initial_page"
    /\ loc' = [loc EXCEPT !.done = FALSE]
    /\ ev' = Quiet
    /\ UNCHANGED <<state, disk, track>>
    /\ PagingFrame

\* The for loop over the shows of the page has ended
PagingProcess ==
    /\ pc = "initial_page"
    /\ ~loc.done
    /\ loc' = [loc EXCEPT !.done = TRUE]
    /\ track' = track \cup {loc.page}
    /\ ev' = Quiet
    /\ UNCHANGED <<state, disk, pc>>
    /\ PagingFrame

\* The checkpoint after the page: the cursor is set and saved, page += 1
PagingCheckpoint ==
    /\ pc = "initial_page"
    /\ loc.done
    /\ state' = checkpoint(state, loc.page)
    /\ disk' = save(disk, state')
    /\ loc' = [page |-> loc.page + 1, done |-> FALSE]
    /\ pc' = "initial"
    /\ ev' = Quiet
    /\ UNCHANGED track
    /\ PagingFrame

\* get_shows_page raises TVMazeRateLimitError: sleep and continue
PagingRateLimited ==
    /\ pc = "initial"
    /\ ev' = [Quiet EXCEPT !.op = "rate_limited"]
    /\ UNCHANGED <<state, disk, pc, loc, track>>
    /\ PagingFrame

\* get_shows_page raises another error: the cycle fails
PagingError ==
    /\ pc = "initial"
    /\ pc' = "idle"
    /\ ev' = Quiet
    /\ UNCHANGED <<state, disk, loc, track>>
    /\ PagingFrame

\* get_shows_page returns no shows: the loop ends and sync_cycle sets
\* last_full_sync
PagingEnd ==
    /\ pc = "initial"
    /\ loc.page > MaxPage
    /\ state' = [state EXCEPT !.last_full_sync = Some(clock)]
    /\ pc' = "retry"
    /\ ev' = Quiet
    /\ UNCHANGED <<disk, loc, track>>
    /\ PagingFrame

\* The rest of the cycle: the retry pass finds nothing, the state is saved and
\* backed up
PagingFinish ==
    /\ pc = "retry"
    /\ state' = [state EXCEPT !.last_incremental_sync = Some(clock)]
    /\ disk' = backup(save(disk, state'))
    /\ pc' = "idle"
    /\ ev' = Quiet
    /\ UNCHANGED <<loc, track>>
    /\ PagingFrame

\* The process dies at any point and is started again from the files
PagingCrash ==
    /\ state' = load(disk)
    /\ pc' = "idle"
    /\ loc' = [page |-> 0, done |-> FALSE]
    /\ ev' = Quiet
    /\ UNCHANGED <<disk, track>>
    /\ PagingFrame

PagingInit ==
    /\ sched = StartedScheduler
    /\ net = NewClient
    /\ db = <<>>
    /\ state = DefaultState
    /\ disk = [state_json |-> None, bak |-> None, tmp |-> None]
    /\ config = [dry_run |-> TRUE, filters |-> FilterEnglish]
    /\ clock = 0
    /\ pc = "idle"
    /\ loc = [page |-> 0, done |-> FALSE]
    /\ stats = ZeroStats
    /\ ev = Quiet
    /\ track = {}

PagingNext ==
    \/ Tick
    \/ PagingCycleStart
    \/ PagingFetch
    \/ PagingProcess
    \/ PagingCheckpoint
    \/ PagingRateLimited
    \/ PagingError
    \/ PagingEnd
    \/ PagingFinish
    \/ PagingCrash

PagingSpec == PagingInit /\ [][PagingNext]_vars

-----------------------------------------------------------------------------
\* check_filter_change at the start of the daemon, on every cache a first
\* observation of show 1 can have left and every stored hash: none (state.json
\* was never written, or was lost), the hash of the filters in force, or the
\* hash of other filters.

\* The caches process_single_show leaves when it stores show 1 for the first time
FirstCaches ==
    {process_single_show(<<>>, cfg, from_tvmaze_response(data), ZeroStats, 0, la, aa).db :
        cfg \in Configs, data \in Records(1), la \in LookupAnswers, aa \in AddAnswers}

FilterCheckInit ==
    /\ sched = NewScheduler
    /\ net = NewClient
    /\ db \in FirstCaches
    /\ config \in Configs
    /\ state \in {[DefaultState EXCEPT !.last_filter_hash = h] :
                    h \in {None} \cup {Some(compute_filter_hash(f)) : f \in FilterSpecs}}
    /\ disk = [state_json |-> None, bak |-> None, tmp |-> None]
    /\ clock = 0
    /\ pc = "startup"
    /\ loc = [previous_hash |-> state.last_filter_hash, returned |-> 0]
    /\ stats = ZeroStats
    /\ ev = Quiet
    /\ track = [i \in IDs |-> None]

\* main: check_filter_change(state, config.filters, db, processor)
FilterCheck ==
    /\ pc = "startup"
    /\ LET r == check_filter_change(state, config.filters, db)
       IN /\ state' = r[1]
          /\ db' = r[2]
    /\ loc' = [loc EXCEPT !.returned =
                    check_filter_change_returns(state, config.filters, db)]
    /\ pc' = "idle"
    /\ UNCHANGED <<disk, config, clock, stats, ev, track, sched, net>>

FilterCheckNext ==
    \/ FilterCheck

FilterCheckSpec == FilterCheckInit /\ [][FilterCheckNext]_vars

-----------------------------------------------------------------------------
\* One entry of the updates feed in run_incremental_sync, with the call to
\* tvmaze.get_show and its answer observed: loc holds the entry and whether the
\* call was made. The cache is empty or holds show 1 as a first observation
\* left it.

FeedAnswers == {"ok", "not_found", "rate_limited", "error"}

FeedInit ==
    /\ sched = StartedScheduler
    /\ net = NewClient
    /\ db \in FirstCaches \cup {<<>>}
    /\ config \in Configs
    /\ state = [DefaultState EXCEPT !.last_full_sync = Some(0),
                                    !.last_incremental_sync = Some(0),
                                    !.last_filter_hash =
                                        Some(compute_filter_hash(config.filters))]
    /\ disk = [state_json |-> Some(File(state)), bak |-> Some(File(state)), tmp |-> None]
    /\ clock = 0
    /\ pc = "updates"
    /\ loc = [tvmaze_id |-> 1, updated_at |-> 0, called |-> FALSE, answer |-> ""]
    /\ stats = ZeroStats
    /\ ev = Quiet
    /\ track = [i \in IDs |-> None]

\* The body of the loop for the entry (tvmaze_id, updated_at) when the show is
\* new or updated: get_show is called and answers
FeedFetch ==
    /\ pc = "updates"
    /\ \E updated_at \in 0..(MaxUpdated + 1), answer \in FeedAnswers :
         LET tvmaze_id == loc.tvmaze_id
             existing == get_show(db, tvmaze_id)
         IN /\ is_new_or_updated(existing, updated_at)
            /\ loc' = [tvmaze_id |-> tvmaze_id, updated_at |-> updated_at,
                       called |-> TRUE, answer |-> answer]
            /\ IF answer = "ok"
               THEN \E data \in Records(tvmaze_id), la \in LookupAnswers,
                       aa \in AddAnswers :
                      LET show == from_tvmaze_response(data)
                          r == process_single_show(db, config, show, stats, clock, la, aa)
                      IN /\ db' = r.db
                         /\ stats' = r.stats
                         /\ state' = [state EXCEPT
                                          !.highest_tvmaze_id = Max(@, tvmaze_id)]
                         /\ ev' = Event("process", tvmaze_id, r.decision, r.lookup,
                                        r.add, r.answer, <<>>)
               ELSE /\ ev' = Quiet
                    /\ UNCHANGED <<db, stats, state>>
    /\ pc' = "fed"
    /\ UNCHANGED <<disk, config, clock, track, sched, net>>

\* The body of the loop for an entry that is neither new nor updated
FeedSkip ==
    /\ pc = "updates"
    /\ \E updated_at \in 0..(MaxUpdated + 1) :
         /\ ~is_new_or_updated(get_show(db, loc.tvmaze_id), updated_at)
         /\ loc' = [tvmaze_id |-> loc.tvmaze_id, updated_at |-> updated_at,
                    called |-> FALSE, answer |-> ""]
    /\ pc' = "fed"
    /\ ev' = Quiet
    /\ UNCHANGED <<db, stats, state, disk, config, clock, track, sched, net>>

FeedNext ==
    \/ FeedFetch
    \/ FeedSkip

FeedSpec == FeedInit /\ [][FeedNext]_vars

-----------------------------------------------------------------------------
\* The three per-show loops (a page of run_initial_sync, the feed of
\* run_incremental_sync, the list of retry_pending_tvdb) over ListLen entries,
\* with every call of a loop body able to fail. loc.kind names the loop,
\* loc.queue the entries not yet visited, loc.failed whether the body of the
\* entry visited last raised. An exception that no except clause of the loop
\* catches leaves the function: pc = "aborted".

ListLen == 2

LoopKinds == {"initial", "incremental", "retry"}

\* Shows 1..ListLen as a first observation without a TVDB id leaves them
PendingCache(cfg) ==
    [i \in 1..ListLen |->
        process_single_show(<<>>, cfg,
            from_tvmaze_response([id |-> i, thetvdb |-> None,
                                  language |-> LanguageOf(i), updated |-> 1]),
            ZeroStats, 0, "none", "id").db[i]]

LoopInit ==
    /\ sched = StartedScheduler
    /\ net = NewClient
    /\ config \in {c \in Configs : ~c.dry_run}
    /\ clock = RetryDelay
    /\ \E kind \in LoopKinds :
         /\ db = IF kind = "retry" THEN PendingCache(config) ELSE <<>>
         /\ loc = [kind |-> kind,
                   queue |-> IF kind = "retry"
                             THEN Ascending(get_shows_for_retry(db, clock, AbandonAfter))
                             ELSE [i \in 1..ListLen |-> i],
                   page |-> 0, now |-> clock, failed |-> FALSE]
    /\ state = [DefaultState EXCEPT !.last_filter_hash =
                                        Some(compute_filter_hash(config.filters))]
    /\ disk = [state_json |-> Some(File(state)), bak |-> None, tmp |-> None]
    /\ pc = "entries"
    /\ stats = ZeroStats
    /\ ev = Quiet
    /\ track = [i \in IDs |-> None]

LoopFrame == UNCHANGED <<config, clock, track, sched, net>>

\* run_initial_sync, one show_data of the page: parsed and processed; or
\* from_tvmaze_response raises; or a call inside process_single_show raises
LoopInitialEntry ==
    /\ pc = "entries"
    /\ loc.kind = "initial"
    /\ loc.queue # <<>>
    /\ \/ \E data \in Records(Head(loc.queue)), la \in LookupAnswers, aa \in AddAnswers :
            LET show == from_tvmaze_response(data)
                r == process_single_show(db, config, show, stats, clock, la, aa)
            IN /\ db' = r.db
               /\ stats' = r.stats
               /\ state' = [state EXCEPT !.highest_tvmaze_id = Max(@, show.tvmaze_id)]
               /\ loc' = [loc EXCEPT !.queue = Tail(loc.queue), !.failed = FALSE]
       \/ /\ loc' = [loc EXCEPT !.queue = Tail(loc.queue), !.failed = TRUE]
          /\ UNCHANGED <<db, stats, state>>
       \/ \E data \in Records(Head(loc.queue)) :
            LET r == process_single_show_raises(db, from_tvmaze_response(data), stats)
            IN /\ db' = r.db
               /\ stats' = r.stats
               /\ loc' = [loc EXCEPT !.queue = Tail(loc.queue), !.failed = TRUE]
               /\ UNCHANGED state
    /\ ev' = Quiet
    /\ UNCHANGED <<pc, disk>>
    /\ LoopFrame

\* run_initial_sync, after the for loop: the checkpoint
LoopInitialCheckpoint ==
    /\ pc = "entries"
    /\ loc.kind = "initial"
    /\ loc.queue = <<>>
    /\ state' = checkpoint(state, loc.page)
    /\ disk' = save(disk, state')
    /\ loc' = [loc EXCEPT !.page = loc.page + 1, !.failed = FALSE]
    /\ pc' = "done"
    /\ ev' = Quiet
    /\ UNCHANGED <<db, stats>>
    /\ LoopFrame

\* run_incremental_sync, one entry of the feed. db.get_show is called before the
\* try statement: when it raises, the exception reaches the except clause of
\* the function, which logs it and raises it again.
LoopFeedEntry ==
    /\ pc = "entries"
    /\ loc.kind = "incremental"
    /\ loc.queue # <<>>
    /\ \/ /\ loc' = [loc EXCEPT !.failed = TRUE]
          /\ pc' = "aborted"
          /\ UNCHANGED <<db, stats, state>>
       \/ \E updated_at \in 1..(MaxUpdated + 1) :
            LET tvmaze_id == Head(loc.queue)
                existing == get_show(db, tvmaze_id)
            IN /\ pc' = pc
               /\ IF is_new_or_updated(existing, updated_at)
                  THEN \/ \E data \in Records(tvmaze_id), la \in LookupAnswers,
                             aa \in AddAnswers :
                            LET show == from_tvmaze_response(data)
                                r == process_single_show(db, config, show, stats, clock,
                                                         la, aa)
                            IN /\ db' = r.db
                               /\ stats' = r.stats
                               /\ state' = [state EXCEPT
                                               !.highest_tvmaze_id = Max(@, tvmaze_id)]
                               /\ loc' = [loc EXCEPT !.queue = Tail(loc.queue),
                                                     !.failed = FALSE]
                       \/ /\ loc' = [loc EXCEPT !.queue = Tail(loc.queue),
                                                !.failed = TRUE]
                          /\ UNCHANGED <<db, stats, state>>
                       \/ \E data \in Records(tvmaze_id) :
                            LET r == process_single_show_raises(
                                         db, from_tvmaze_response(data), stats)
                            IN /\ db' = r.db
                               /\ stats' = r.stats
                               /\ loc' = [loc EXCEPT !.queue = Tail(loc.queue),
                                                     !.failed = TRUE]
                               /\ UNCHANGED state
                  ELSE /\ loc' = [loc EXCEPT !.queue = Tail(loc.queue),
                                             !.failed = FALSE]
                       /\ UNCHANGED <<db, stats, state>>
    /\ ev' = Quiet
    /\ UNCHANGED disk
    /\ LoopFrame

\* retry_pending_tvdb, one show of shows_to_retry. The clause for
\* TVMazeNotFoundError calls db.mark_show_failed: when that call raises, no
\* clause catches it.
LoopRetryEntry ==
    /\ pc = "entries"
    /\ loc.kind = "retry"
    /\ loc.queue # <<>>
    /\ \/ \E answer \in {"ok", "not_found", "error"}, data \in Records(Head(loc.queue)),
             la \in LookupAnswers, aa \in AddAnswers :
            LET id == Head(loc.queue)
                show == from_db_row(db[id])
                r == retry_one(db, config, show, stats, loc.now, clock, answer, data,
                               la, aa)
            IN /\ db' = r.db
               /\ stats' = r.stats
               /\ loc' = [loc EXCEPT !.queue = Tail(loc.queue),
                                     !.failed = (r.answer # "ok")]
               /\ ev' = Event("retry", id, r.decision, r.lookup, r.add, r.answer,
                              <<answer>>)
               /\ pc' = pc
       \/ /\ loc' = [loc EXCEPT !.failed = TRUE]
          /\ pc' = "aborted"
          /\ ev' = Quiet
          /\ UNCHANGED <<db, stats>>
    /\ UNCHANGED <<state, disk>>
    /\ LoopFrame

\* The feed or the retry list is exhausted
LoopEnd ==
    /\ pc = "entries"
    /\ loc.kind # "initial"
    /\ loc.queue = <<>>
    /\ pc' = "done"
    /\ loc' = [loc EXCEPT !.failed = FALSE]
    /\ ev' = Quiet
    /\ UNCHANGED <<db, stats, state, disk>>
    /\ LoopFrame

LoopNext ==
    \/ LoopInitialEntry
    \/ LoopInitialCheckpoint
    \/ LoopFeedEntry
    \/ LoopRetryEntry
    \/ LoopEnd

LoopSpec == LoopInit /\ [][LoopNext]_vars

-----------------------------------------------------------------------------
\* sync_cycle as a whole, cycle after cycle, with the calls that can fail in it:
\* the syncs and the retry pass, and the save that ends the cycle. loc.healthy
\* is the gauge that record_sync_complete sets (None before the first cycle),
\* loc.before the state object as the cycle found it, loc.completed the files
\* that successful cycles left as state.json.

CycleInit ==
    /\ sched = StartedScheduler
    /\ net = NewClient
    /\ db = <<>>
    /\ state = DefaultState
    /\ disk = [state_json |-> None, bak |-> None, tmp |-> None]
    /\ config = [dry_run |-> TRUE, filters |-> FilterEnglish]
    /\ clock = 0
    /\ pc = "idle"
    /\ loc = [healthy |-> None, before |-> state, completed |-> {}]
    /\ stats = ZeroStats
    /\ ev = Quiet
    /\ track = [i \in IDs |-> None]

CycleFrame == UNCHANGED <<db, config, stats, ev, track, sched, net>>

CycleTick ==
    /\ clock < MaxTime
    /\ clock' = clock + 1
    /\ UNCHANGED <<state, disk, pc, loc>>
    /\ CycleFrame

\* The scheduler calls sync_cycle
CycleBegin ==
    /\ pc = "idle"
    /\ pc' = IF state.last_full_sync = None THEN "initial" ELSE "incremental"
    /\ loc' = [loc EXCEPT !.before = state]
    /\ UNCHANGED <<state, disk, clock>>
    /\ CycleFrame

\* run_initial_sync checkpoints a page
CycleCheckpoint ==
    /\ pc = "initial"
    /\ state.last_tvmaze_page < MaxPage
    /\ state' = checkpoint(state, state.last_tvmaze_page + 1)
    /\ disk' = save(disk, state')
    /\ UNCHANGED <<clock, pc, loc>>
    /\ CycleFrame

\* run_initial_sync returns and last_full_sync is set
CycleInitialDone ==
    /\ pc = "initial"
    /\ state' = [state EXCEPT !.last_full_sync = Some(clock)]
    /\ pc' = "retry"
    /\ UNCHANGED <<disk, clock, loc>>
    /\ CycleFrame

\* run_incremental_sync returns
CycleIncrementalDone ==
    /\ pc = "incremental"
    /\ pc' = "retry"
    /\ UNCHANGED <<state, disk, clock, loc>>
    /\ CycleFrame

\* retry_pending_tvdb returns
CycleRetryDone ==
    /\ pc = "retry"
    /\ pc' = "finalize"
    /\ UNCHANGED <<state, disk, clock, loc>>
    /\ CycleFrame

\* One of the syncs or the retry pass raises: except Exception records the
\* failure and raises again
CycleRaises ==
    /\ pc \in {"initial", "incremental", "retry"}
    /\ loc' = [loc EXCEPT !.healthy = Some(0)]
    /\ pc' = "idle"
    /\ UNCHANGED <<state, disk, clock>>
    /\ CycleFrame

\* The end of the try block: last_incremental_sync is set, the state is saved
\* and backed up (backup logs an IOError of its own), success is recorded
CycleFinalize ==
    /\ pc = "finalize"
    /\ state' = [state EXCEPT !.last_incremental_sync = Some(clock)]
    /\ \/ disk' = backup(save(disk, state'))
       \/ disk' = save(disk, state')
    /\ loc' = [loc EXCEPT !.healthy = Some(1),
                          !.completed = @ \cup {Val(disk'.state_json)}]
    /\ pc' = "idle"
    /\ UNCHANGED clock
    /\ CycleFrame

\* The end of the try block when state.save raises IOError: save has removed
\* state.json.tmp, and except Exception records the failure
CycleSaveRaises ==
    /\ pc = "finalize"
    /\ state' = [state EXCEPT !.last_incremental_sync = Some(clock)]
    /\ disk' = unlink_tmp(disk)
    /\ loc' = [loc EXCEPT !.healthy = Some(0)]
    /\ pc' = "idle"
    /\ UNCHANGED clock
    /\ CycleFrame

CycleNext ==
    \/ CycleTick
    \/ CycleBegin
    \/ CycleCheckpoint
    \/ CycleInitialDone
    \/ CycleIncrementalDone
    \/ CycleRetryDone
    \/ CycleRaises
    \/ CycleFinalize
    \/ CycleSaveRaises

CycleSpec == CycleInit /\ [][CycleNext]_vars

-----------------------------------------------------------------------------
\* POST /refilter (src/server.py) row by row, on a thread of the HTTP server,
\* while the worker runs a cycle on the same connection. loc.http is where the
\* handler is, loc.show the Show object the cursor yielded last, loc.visited the
\* rows the cursor has passed, loc.processed the shows the cycle has processed.

\* The record of show id as upstream serves it at some time: the language of a
\* show can be edited upstream
EditedRecords(id) ==
    [id : {id}, thetvdb : {Some(100 + id)}, language : Languages,
     updated : 1..MaxUpdated]

RefilterInit ==
    /\ sched = StartedScheduler
    /\ net = NewClient
    /\ config \in {c \in Configs : ~c.dry_run}
    /\ \E d1 \in [1..ListLen -> {"found", "none"}], d2 \in [1..ListLen -> Languages] :
         db = [i \in 1..ListLen |->
                 process_single_show(<<>>, config,
                     from_tvmaze_response([id |-> i, thetvdb |-> Some(100 + i),
                                           language |-> d2[i], updated |-> 1]),
                     ZeroStats, 0, d1[i], "id").db[i]]
    /\ state = [DefaultState EXCEPT !.last_full_sync = Some(0),
                                    !.last_incremental_sync = Some(0),
                                    !.last_filter_hash =
                                        Some(compute_filter_hash(config.filters))]
    /\ disk = [state_json |-> Some(File(state)), bak |-> Some(File(state)), tmp |-> None]
    /\ clock = 0
    /\ pc = "updates"
    /\ loc = [http |-> "idle", show |-> None, visited |-> {}, processed |-> {}]
    /\ stats = ZeroStats
    /\ ev = Quiet
    /\ track = [i \in IDs |-> None]

RefilterFrame == UNCHANGED <<state, disk, config, clock, pc, track, sched, net>>

\* The worker, in run_incremental_sync: one updated show is fetched and processed
RefilterCycleProcess ==
    /\ \E id \in (1..ListLen) \ loc.processed, la \in LookupAnswers, aa \in AddAnswers :
         \E data \in EditedRecords(id) :
            LET r == process_single_show(db, config, from_tvmaze_response(data), stats,
                                         clock, la, aa)
            IN /\ db' = r.db
               /\ stats' = r.stats
               /\ ev' = Event("process", id, r.decision, r.lookup, r.add, r.answer, <<>>)
               /\ loc' = [loc EXCEPT !.processed = @ \cup {id}]
    /\ RefilterFrame

\* The handler: the cursor of get_all_filtered_shows yields the next row
RefilterFetch ==
    /\ loc.http \in {"idle", "row_done"}
    /\ \E id \in get_all_filtered_shows(db) \ loc.visited :
         loc' = [loc EXCEPT !.http = "fetched", !.show = Some(from_db_row(db[id])),
                            !.visited = @ \cup {id}]
    /\ ev' = Quiet
    /\ UNCHANGED <<db, stats>>
    /\ RefilterFrame

\* The handler: the body of the loop for the Show object it holds
RefilterRow ==
    /\ loc.http = "fetched"
    /\ LET show == Val(loc.show)
           id == show.tvmaze_id
           result == process(show, config.filters)
       IN /\ db' = IF result.decision = ADD
                   THEN update_show_status(db, id, PENDING)
                   ELSE IF result.decision = FILTER
                           /\ Some(result.reason) # show.filter_reason
                   THEN mark_show_filtered(db, id, result.reason,
                                           Val(result.filter_category))
                   ELSE db
          /\ ev' = Event("refilter", id, result.decision, FALSE, FALSE, "", <<>>)
    /\ loc' = [loc EXCEPT !.http = "row_done", !.show = None]
    /\ UNCHANGED stats
    /\ RefilterFrame

\* The handler: the cursor is exhausted and the response is sent
RefilterDone ==
    /\ loc.http \in {"idle", "row_done"}
    /\ get_all_filtered_shows(db) \ loc.visited = {}
    /\ loc' = [loc EXCEPT !.http = "idle", !.visited = {}]
    /\ ev' = Quiet
    /\ UNCHANGED <<db, stats>>
    /\ RefilterFrame

RefilterNext ==
    \/ RefilterCycleProcess
    \/ RefilterFetch
    \/ RefilterRow
    \/ RefilterDone

RefilterSpec == RefilterInit /\ [][RefilterNext]_vars

-----------------------------------------------------------------------------
\* A scheduler that is started, stopped and started again: stop() returns from
\* its join when the worker has exited, and start() is called after that.

\* start() as a whole, called after stop() has joined the worker: the test of
\* line 38 finds the thread dead, the stop event is cleared and a new thread is
\* created and started
Restart ==
    /\ sched.stops > 0
    /\ sched.stopping = 0
    /\ sched._thread # 0
    /\ ~thread_is_alive(sched)
    /\ sched.created < MaxWorkers
    /\ LET w == sched.created + 1
       IN sched' = [sched EXCEPT !._stop_event = FALSE,
                                 !._thread = w,
                                 !.worker[w].pc = "top",
                                 !.created = w,
                                 !.starts = @ + 1,
                                 !.last = "start_thread"]
    /\ UNCHANGED <<engine, net>>

RestartNext ==
    \/ StopSet
    \/ StopWake
    \/ TriggerNow
    \/ Restart
    \/ \E w \in Workers : WorkerTop(w)
    \/ \E w \in Workers : WorkerWaitTriggered(w)
    \/ \E w \in Workers : WorkerWaitTimeout(w)
    \/ \E w \in Workers : WorkerClear(w)
    \/ \E w \in Workers : WorkerCheckStop(w)
    \/ \E w \in Workers : WorkerMark(w)
    \/ \E w \in Workers : WorkerSync(w)
    \/ \E w \in Workers : WorkerUnmark(w)

RestartSpec == StartedInit /\ [][RestartNext]_vars

-----------------------------------------------------------------------------
\* Properties

\* C1 (P1): a show whose status is ADDED has a Sonarr series id and no filter
\* reason, whatever Sonarr answered to the add.
C1_AddedHasSeriesId ==
    \A id \in DOMAIN db :
        db[id].processing_status = ADDED =>
            /\ db[id].sonarr_series_id # None
            /\ db[id].filter_reason = None

\* C2: a show whose status is PENDING_TVDB has both pending_since and
\* retry_after set.
C2_PendingHasTimes ==
    \A id \in DOMAIN db :
        db[id].processing_status = PENDING_TVDB =>
            /\ db[id].pending_since # None
            /\ db[id].retry_after # None

\* A show has just been processed without a TVDB id and is pending
C2_Witness ==
    /\ ev.op = "process"
    /\ ev.decision = RETRY
    /\ ev.id \in DOMAIN db
    /\ db[ev.id].processing_status = PENDING_TVDB

\* C3: while a show stays PENDING_TVDB, no step (re-observation through a page,
\* the feed or the probe, a retry, a lookup miss) replaces a pending_since that
\* is set with a later value, or unsets it.
C3_PendingSinceNeverAdvanced ==
    [][\A id \in (DOMAIN db) \cap (DOMAIN db') :
          (/\ db[id].processing_status = PENDING_TVDB
           /\ db'[id].processing_status = PENDING_TVDB
           /\ db[id].pending_since # None)
          => /\ db'[id].pending_since # None
             /\ Val(db'[id].pending_since) <= Val(db[id].pending_since)]_vars

\* C4: at the end of a retry pass run at time now, no show is still pending
\* that has been without a TVDB id continuously since a time T0 with
\* T0 + abandon_after <= now.
C4_AbandonedAtHorizon ==
    pc = "finalize" =>
        \A id \in IDs :
            track[id] # None => loc.now < Val(track[id]) + AbandonAfter

\* C5: for every time now and horizon abandon_after, on every cache content, no
\* show is both ready for retry and due for abandonment; a pending show is due
\* for abandonment exactly when pending_since + abandon_after <= now.
C5_RetryAbandonDisjoint ==
    \A now \in Times, abandon_after \in 0..AbandonAfter :
        /\ get_shows_for_retry(db, now, abandon_after)
               \cap get_shows_to_abandon(db, now, abandon_after) = {}
        /\ \A id \in DOMAIN db :
              (db[id].processing_status = PENDING_TVDB /\ db[id].pending_since # None)
              => /\ (id \in get_shows_to_abandon(db, now, abandon_after))
                        <=> (Val(db[id].pending_since) + abandon_after <= now)
                 /\ (Val(db[id].pending_since) + abandon_after <= now)
                        => id \notin get_shows_for_retry(db, now, abandon_after)

\* A pending show is due for abandonment now, and would be ready for retry
\* under a horizon one tick longer
C5_Witness ==
    \E id \in DOMAIN db :
        /\ id \in get_shows_to_abandon(db, clock, AbandonAfter)
        /\ id \in get_shows_for_retry(db, clock, AbandonAfter + 1)

\* C6: in a retry pass, every show that was due for abandonment when the pass
\* began is FAILED with the error naming the missing TVDB id, is not selected
\* for retry or re-fetched, and keeps its retry_count and retry_after.
C6_AbandonBeforeRetry ==
    pc \in {"retry_loop", "finalize"} =>
        \A id \in DOMAIN loc.shows_to_abandon :
            /\ db[id].processing_status = FAILED
            /\ db[id].error_message = Some(<<"No TVDB ID after ", AbandonAfter>>)
            /\ db[id].retry_count = loc.shows_to_abandon[id].retry_count
            /\ db[id].retry_after = loc.shows_to_abandon[id].retry_after
            /\ \A k \in DOMAIN loc.queue : loc.queue[k] # id
            /\ ~(ev.op = "retry" /\ ev.id = id)

\* A retry pass has abandoned a show
C6_Witness ==
    /\ pc = "finalize"
    /\ DOMAIN loc.shows_to_abandon # {}

\* C7: a retry whose upstream record now has a TVDB id, for a show the filters
\* select, with Sonarr's lookup and add succeeding, ends with the show ADDED,
\* its series id stored and retry_count one more than before.
C7_RetrySuccessAdded ==
    [][(/\ ev'.op = "retry"
        /\ ev'.input = <<"ok", Some(100 + ev'.id), "found", "id">>
        /\ ~config.dry_run
        /\ process([from_db_row(db[ev'.id]) EXCEPT !.tvdb_id = Some(100 + ev'.id)],
                   config.filters).decision = ADD)
       => /\ db'[ev'.id].processing_status = ADDED
          /\ db'[ev'.id].sonarr_series_id = Some(SeriesId(ev'.id))
          /\ db'[ev'.id].retry_count = db[ev'.id].retry_count + 1]_vars

\* C8: with dry_run set no step calls Sonarr's add; a processed show with an
\* ADD decision only counts as added: no lookup, no status written.
C8_DryRunNeverAdds ==
    [][config'.dry_run =>
          /\ ~ev'.add
          /\ (ev'.op = "process" /\ ev'.decision = ADD) =>
                /\ ~ev'.lookup
                /\ stats' = [stats EXCEPT !.shows_processed = @ + 1,
                                          !.shows_added = @ + 1]
                /\ db'[ev'.id].processing_status = PENDING
                /\ db'[ev'.id].sonarr_series_id = None]_vars

\* A show was processed to an ADD decision under dry_run
C8_Witness ==
    /\ config.dry_run
    /\ ev.op = "process"
    /\ ev.decision = ADD
    /\ stats.shows_added > 0

\* C9: processing a show to a FILTER decision calls neither lookup nor add,
\* leaves the show FILTERED with filter_reason holding the processor's category
\* and reason, and adds one to the filtered counter.
C9_FilterDecision ==
    [][(ev'.op = "process" /\ ev'.decision = FILTER) =>
          LET result == process(from_db_row(db'[ev'.id]), config.filters)
          IN /\ ~ev'.lookup
             /\ ~ev'.add
             /\ result.decision = FILTER
             /\ db'[ev'.id].processing_status = FILTERED
             /\ db'[ev'.id].filter_reason =
                    Some(<<Val(result.filter_category), ": ">> \o result.reason)
             /\ stats'.shows_filtered = stats.shows_filtered + 1]_vars

\* A show has just been filtered
C9_Witness ==
    /\ ev.op = "process"
    /\ ev.decision = FILTER
    /\ db[ev.id].processing_status = FILTERED
    /\ stats.shows_filtered > 0

\* C10: when Sonarr's add says the series already exists, the show is EXISTS
\* with no series id, the exists counter grows by one and the failed counter
\* does not change.
C10_AlreadyExists ==
    [][(ev'.op \in {"process", "retry"} /\ ev'.add /\ ev'.answer = "exists") =>
          /\ db'[ev'.id].processing_status = EXISTS
          /\ db'[ev'.id].sonarr_series_id = None
          /\ stats'.shows_exists = stats.shows_exists + 1
          /\ stats'.shows_failed = stats.shows_failed]_vars

\* Sonarr has just answered that the series already exists
C10_Witness ==
    /\ ev.op = "process"
    /\ ev.answer = "exists"
    /\ db[ev.id].processing_status = EXISTS
    /\ stats.shows_exists > 0

\* C11: a show that re-evaluation left PENDING is submitted to Sonarr by the next
\* sync cycle. A submission always leaves another status than PENDING, so at the
\* end of a successful cycle that was not a dry run no show that was PENDING when
\* the cycle began is still PENDING.
C11_PendingSubmittedByCycle ==
    (pc = "finalize" /\ ~config.dry_run) =>
        \A id \in loc.pending_at_start :
            id \in DOMAIN db /\ db[id].processing_status # PENDING

\* C12: between cycles highest_tvmaze_id is at least every id in the cache,
\* whatever succeeded or failed in the cycle: when a cycle ends, by its last
\* statement or by an exception, every show the cycle stored is at or below
\* highest_tvmaze_id.
C12_HighestCoversCache ==
    [][(pc \notin {"idle", "startup", "reconcile"} /\ pc' = "idle") =>
          \A id \in DOMAIN db' \ loc.cached_at_start :
              state'.highest_tvmaze_id >= id]_vars

\* C13: when a cycle completes successfully, last_filter_hash in memory and in
\* the state.json just written both equal the hash of the filters the daemon
\* runs with.
C13_FilterHashCurrent ==
    [][(pc = "finalize" /\ pc' = "idle") =>
          /\ state'.last_filter_hash = Some(compute_filter_hash(config'.filters))
          /\ disk'.state_json # None
          /\ Val(disk'.state_json).defect = ""
          /\ Val(disk'.state_json).doc.last_filter_hash =
                Some(compute_filter_hash(config'.filters))]_vars

\* A successful cycle has ended under filters that exclude a show which was added
\* under the filters of an earlier start
C13_Witness ==
    /\ pc = "idle"
    /\ state.last_incremental_sync # None
    /\ disk.state_json = Some(File(state))
    /\ disk.bak = Some(File(state))
    /\ state.last_filter_hash = Some(compute_filter_hash(FilterNotEnglish))
    /\ config.filters = FilterNotEnglish
    /\ \E id \in DOMAIN db : db[id].processing_status = ADDED /\ LanguageOf(id) = "English"

\* C14: the probe starts at highest_tvmaze_id + 1 with no miss counted and asks
\* for ids in ascending order; a fetched show resets the count of consecutive
\* misses, a NotFound response adds one to it, and no other response changes
\* it; a request is made only below 10 misses, and the probe ends only at 10.
C14_ProbeStopsAtTenNotFound ==
    [][/\ (pc = "updates" /\ pc' = "probe") =>
            /\ loc'.current_id = state.highest_tvmaze_id + 1
            /\ loc'.consecutive_not_found = 0
       /\ (pc = "probe" /\ pc' = "probe") =>
            /\ loc.consecutive_not_found < max_not_found
            /\ loc'.current_id >= loc.current_id
            /\ ev'.op = "process" =>
                  loc'.consecutive_not_found = 0 /\ loc'.current_id = loc.current_id + 1
            /\ ev'.op = "not_found" =>
                  /\ loc'.consecutive_not_found = loc.consecutive_not_found + 1
                  /\ loc'.current_id = loc.current_id + 1
            /\ ev'.op \notin {"process", "not_found"} =>
                  loc'.consecutive_not_found = loc.consecutive_not_found
       /\ (pc = "probe" /\ pc' = "retry") =>
            loc.consecutive_not_found = max_not_found]_vars

\* C15: whatever the interleaving of start, trigger_now and stop calls, at most
\* one call of the cycle function is executing, and at most one worker thread is
\* alive: a start() while a worker exists creates no second one.
C15_SingleFlight ==
    /\ Cardinality({w \in Workers : sched.worker[w].pc = "cycle"}) <= 1
    /\ Cardinality({w \in Workers : is_alive(sched, w)}) <= 1

\* C16: trigger_now calls made while the worker waits, before it wakes, cause one
\* cycle and not one per call: the cycles begun by a trigger are never more than
\* the waits during which the event was set plus the calls that set it while the
\* worker was not waiting.
C16_TriggerIdempotent ==
    sched.trig_cycles <= sched.periods + sched.late

\* Two calls arrived during one wait, one cycle ran for them, and the worker
\* waits again with no trigger left
C16_Witness ==
    /\ sched.triggers = 2
    /\ sched.periods = 1
    /\ sched.late = 0
    /\ sched.trig_cycles = 1
    /\ sched.stops = 0
    /\ sched.worker[1].pc = "wait"
    /\ sched.worker[1].last = "returned"
    /\ ~sched._trigger_event

\* C17: a trigger is never lost. While a trigger_now call has not yet been
\* followed by the beginning of a cycle, a waiting worker finds the event set, so
\* its wait ends at once and not at the end of the interval; and unless stop() is
\* called, a cycle begins after the call, wherever the worker was when the call
\* arrived.
C17_TriggerNeverLost ==
    /\ [](\A w \in Workers :
            (sched.pending /\ sched.worker[w].pc = "wait") => sched._trigger_event)
    /\ (sched.pending ~> (~sched.pending \/ sched.stops > 0))

\* A trigger that arrived while a cycle was running has begun the next cycle
C17_Witness ==
    /\ sched.triggers >= 1
    /\ sched.late >= 1
    /\ sched.stops = 0
    /\ ~sched.pending
    /\ sched.worker[1].pc = "cycle"
    /\ sched.worker[1].triggered
    /\ sched.worker[1].last # ""

C19_StopPreventsNewCycle ==
    [][\A w \in Workers :
          /\ (sched.worker[w].pc = "cycle" /\ sched'.worker[w].pc # "cycle") =>
                sched'.worker[w].pc = "unmark"
          /\ (sched.stops > 0 /\ sched.worker[w].pc # "cycle") =>
                sched'.worker[w].pc # "cycle"]_vars

\* C20: POST /trigger answers 409 and sets nothing while a cycle is running, and
\* otherwise calls trigger_now; the handler's trigger_now is never executed
\* while is_running is true.
C20_HandlerTriggersOnlyWhenIdle ==
    [][/\ sched'.last = "handler_409" =>
            is_running(sched) /\ sched'._trigger_event = sched._trigger_event
       /\ sched'.last = "handler_check" => ~is_running(sched)
       /\ sched'.last = "handler_trigger" =>
            ~is_running(sched) /\ sched'._trigger_event]_vars

\* C21: in any interval of window_seconds no more than max_requests callers are
\* admitted, whatever the interleaving; and a caller that has to wait sleeps
\* until the oldest counted acquisition is window_seconds old.
C21_WindowLimit ==
    /\ \A i \in 1..Len(net.rl.admitted) :
          Cardinality({j \in 1..Len(net.rl.admitted) :
                          /\ net.rl.admitted[j] >= net.rl.admitted[i]
                          /\ net.rl.admitted[j] < net.rl.admitted[i] + window_seconds})
              <= max_requests
    /\ \A t \in Threads :
          net.rl.thr[t].pc = "sleeping" =>
              net.rl.thr[t].wake_at = Head(net.rl._timestamps) + window_seconds

\* C22: wait_time does not block. A caller of wait_time never has to wait for
\* the lock while another thread sleeps in acquire; and the value returned is 0
\* exactly when an acquire at that instant would be admitted without sleeping,
\* and otherwise the time until the oldest counted acquisition leaves the window.
C22_WaitTimeNonBlocking ==
    [][\A t \in Threads :
          /\ net'.rl.thr[t].pc = "wait_time" =>
                ~\E u \in Threads : net'.rl.thr[u].pc = "sleeping"
          /\ (net.rl.thr[t].pc = "wait_time" /\ net'.rl.thr[t].pc = "idle") =>
                /\ net'.rl.thr[t].result = sleep_time(net.rl._timestamps, net.rl.time)
                /\ net'.rl.thr[t].result >= 0]_vars

\* C23: 429 responses do not use up the attempts of _request. A 429 is always
\* followed by another attempt; the call ends with a response that is not a 429,
\* with a failed request, or because 5xx responses and timeouts, and only they,
\* have used max_retries + 1 attempts.
C23_RateLimitedNotCounted ==
    [][(net.req.pc = "attempt" /\ net'.req.pc = "done") =>
          LET rs == net'.req.responses
              kind == rs[Len(rs)]
              failures == Cardinality({i \in 1..Len(rs) : rs[i] \in {"5xx", "timeout"}})
          IN /\ kind # "429"
             /\ kind = "ok" => net'.req.out = "response"
             /\ kind \in {"5xx", "timeout"} => failures = max_retries + 1]_vars

\* C24: at every point of a save, and after a save that failed, state.json holds
\* the document it held when the save began or a complete document, never a
\* partial one, and when a save fails no state.json.tmp is left behind.
C24_SaveAtomic ==
    [][/\ \A t \in Savers :
            loc'[t].pc # "idle" =>
                \/ disk'.state_json = loc'[t].prev
                \/ /\ disk'.state_json # None
                   /\ Val(disk'.state_json).defect = ""
       /\ \A t \in Savers :
            (loc[t].pc = "except" /\ loc'[t].pc = "failed") => disk'.tmp = None]_vars

\* C25: load never raises, and returns the content of state.json when that file
\* exists and validates, otherwise the content of state.json.bak when that one
\* exists and validates, otherwise the default state.
C25_LoadFallsBack ==
    /\ pc # "load_raised"
    /\ pc = "load_returned" =>
        state =
            IF disk.state_json # None /\ Val(disk.state_json).defect = ""
            THEN from_dict(Val(disk.state_json).doc)
            ELSE IF disk.bak # None /\ Val(disk.bak).defect = ""
            THEN from_dict(Val(disk.bak).doc)
            ELSE DefaultState

\* C26: when a cached show is observed again, its processing state is kept
\* unless the decision of the step assigns a new one: a show that is ADDED and is
\* decided ADD again stays ADDED with its series id and acceptance time, and a
\* show whose status a page, feed or probe step leaves as it was keeps its
\* series id, acceptance time, retry_count and pending_since.
C26_ProcessingStatePreserved ==
    [][\A id \in (DOMAIN db) \cap (DOMAIN db') :
          (ev'.op \in {"process", "retry"} /\ ev'.id = id) =>
              /\ (db[id].processing_status = ADDED /\ ev'.decision = ADD) =>
                    /\ db'[id].processing_status = ADDED
                    /\ db'[id].sonarr_series_id = db[id].sonarr_series_id
                    /\ db'[id].added_to_sonarr_at = db[id].added_to_sonarr_at
              /\ (/\ ev'.op = "process"
                  /\ db'[id].processing_status = db[id].processing_status) =>
                    /\ db'[id].sonarr_series_id = db[id].sonarr_series_id
                    /\ db'[id].added_to_sonarr_at = db[id].added_to_sonarr_at
                    /\ db'[id].retry_count = db[id].retry_count
                    /\ db'[id].pending_since = db[id].pending_since]_vars

C28_TimestampsMonotone ==
    [][LET killed == /\ pc' = "startup"
                     /\ disk' = disk
                     /\ pc # "idle" \/ disk.state_json # Some(File(state))
           NotBefore(old, new) == old # None => (new # None /\ Val(old) <= Val(new))
       IN ~killed =>
            /\ NotBefore(state.last_full_sync, state'.last_full_sync)
            /\ NotBefore(state.last_incremental_sync, state'.last_incremental_sync)]_vars

\* A cycle has completed some time after its initial sync ended, and the daemon
\* was then shut down and started again: the times in memory came through the
\* file
C28_Witness ==
    /\ pc = "startup"
    /\ state.last_full_sync # None
    /\ state.last_incremental_sync # None
    /\ Val(state.last_full_sync) < Val(state.last_incremental_sync)
    /\ disk.state_json = Some(File(state))
    /\ disk.bak # None

\* C29: last_full_sync is set only by an initial sync that has reached an empty
\* page; when the initial sync ends with an error, last_full_sync stays null and
\* the state, the checkpoint on disk and the cached rows are as the sync left
\* them; and a cycle that starts while last_full_sync is null is an initial sync
\* that begins at the checkpointed page.
C29_FullSyncOnlyAfterLastPage ==
    [][/\ (state.last_full_sync = None /\ state'.last_full_sync # None) =>
            /\ pc = "initial"
            /\ PageIds(loc.page) = {}
            /\ pc' = "retry"
       /\ (pc \in {"initial", "initial_page"} /\ pc' = "idle") =>
            /\ state.last_full_sync = None
            /\ state' = state
            /\ db' = db
            /\ disk' = disk
       /\ (pc = "idle" /\ state.last_full_sync = None
              /\ pc' \notin {"idle", "startup", "reconcile"}) =>
            /\ pc' = "initial"
            /\ loc'.page = state.last_tvmaze_page]_vars

\* An initial sync that checkpointed page 0 and then failed has been started
\* again: it is at the checkpointed page, with the rows and the file kept
C29_Witness ==
    /\ pc = "initial"
    /\ state.last_full_sync = None
    /\ loc.page = state.last_tvmaze_page
    /\ state.highest_tvmaze_id > 0
    /\ stats.shows_processed = 0
    /\ loc.cached_at_start # {}
    /\ DOMAIN db = loc.cached_at_start
    /\ disk.state_json = Some(File(state))
    /\ disk.bak = None

\* C30: over initial syncs that fail, are killed and are resumed, every page from
\* page 0 to the last page that holds shows has been fetched and processed when
\* last_full_sync is set; the cursor in state.json is never beyond the pages
\* that were fully processed; and a rate-limit error leaves the cursor, the file
\* and the page to fetch as they were.
C30_NoPageSkipped ==
    [][/\ state'.last_full_sync # None => track' = 0..MaxPage
       /\ disk'.state_json # None =>
            LET cursor == Val(disk'.state_json).doc.last_tvmaze_page
            IN /\ \A p \in 0..(cursor - 1) : p \in track'
               /\ cursor > 0 => cursor \in track'
       /\ ev'.op = "rate_limited" =>
            /\ state' = state
            /\ disk' = disk
            /\ loc'.page = loc.page
            /\ pc' = "initial"]_vars

\* An initial sync that was interrupted after the checkpoint of a later page has
\* been resumed at that page, which it had processed before, and the fetch of
\* the page has just been rate limited
C30_Witness ==
    /\ pc = "initial"
    /\ ev.op = "rate_limited"
    /\ state.last_full_sync = None
    /\ loc.page > 0
    /\ loc.page \in track
    /\ Val(disk.state_json).doc.last_tvmaze_page = loc.page

\* C31: in a retry pass, a show that was ready for retry and whose re-fetched
\* record still has no TVDB id has its retry_count raised by exactly one, stays
\* PENDING_TVDB, gets retry_after = now + retry_delay and keeps its
\* pending_since.
C31_RetryStillPending ==
    [][\A id \in (DOMAIN db) \cap (DOMAIN db') :
          (/\ pc = "retry_loop"
           /\ ev'.op = "retry"
           /\ ev'.id = id
           /\ Len(ev'.input) = 4
           /\ ev'.input[1] = "ok"
           /\ ev'.input[2] = None) =>
              /\ db'[id].retry_count = db[id].retry_count + 1
              /\ db'[id].processing_status = PENDING_TVDB
              /\ db'[id].retry_after = Some(loc.now + RetryDelay)
              /\ db'[id].pending_since = db[id].pending_since]_vars

\* C32: check_filter_change leaves every cache row as it was and returns 0 when
\* no hash was stored or the stored hash is the current one, re-evaluates the
\* filtered shows when a stored hash differs, and in all three cases leaves the
\* current hash in state.last_filter_hash.
C32_ReEvaluateOnlyOnChange ==
    [][(pc = "startup" /\ pc' = "idle") =>
          LET current_hash == Some(compute_filter_hash(config.filters))
              same == state.last_filter_hash \in {None, current_hash}
          IN /\ state'.last_filter_hash = current_hash
             /\ same => db' = db /\ loc'.returned = 0
             /\ ~same => db' = re_evaluate_filtered_shows(db, config.filters)]_vars

\* The daemon was started without a stored hash on a cache that holds a filtered
\* show which the filters in force would pass: the show is still filtered
C32_Witness ==
    /\ pc = "idle"
    /\ loc.previous_hash = None
    /\ loc.returned = 0
    /\ state.last_filter_hash = Some(compute_filter_hash(config.filters))
    /\ \E id \in DOMAIN db :
          /\ db[id].processing_status = FILTERED
          /\ process(from_db_row(db[id]), config.filters).decision = ADD

C34_ErrorDoesNotAbort ==
    [][/\ (pc = "entries" /\ loc'.failed) =>
             (pc' = "entries" /\ loc'.queue = Tail(loc.queue))
       /\ (pc = "entries" /\ pc' # "entries" /\ loc.kind = "initial") =>
             (state'.last_tvmaze_page = loc.page /\ disk' = save(disk, state'))]_vars

\* C35: a cycle that ends with an error is recorded as failed, leaves
\* last_incremental_sync as the cycle found it, and writes neither state.json
\* in its last step nor state.json.bak; state.json.bak, when it exists, is a
\* file that a successful cycle left as state.json.
C35_FailedCycleLeavesState ==
    [][/\ (pc # "idle" /\ pc' = "idle" /\ loc'.healthy # Some(1)) =>
             /\ loc'.healthy = Some(0)
             /\ state'.last_incremental_sync = loc.before.last_incremental_sync
             /\ disk'.state_json = disk.state_json
             /\ disk'.bak = disk.bak
       /\ (disk'.bak # None => Val(disk'.bak) \in loc'.completed)]_vars

\* C36: a step of an HTTP handler leaves every row of the cache as it is; in
\* particular it leaves the processing_status that the running cycle wrote for
\* a show.
C36_HandlersOnlyRead ==
    [][loc'.http # loc.http =>
          \A id \in DOMAIN db :
             id \in loc.processed => db'[id].processing_status = db[id].processing_status]_vars

\* C37: is_running is true exactly while the cycle function executes on a
\* worker: it is true whenever a worker is inside sync_func, and when it is true
\* a worker is inside sync_func or in the finally clause that follows it.
C37_RunningWhileCycle ==
    /\ (\E w \in Workers : sched.worker[w].pc = "cycle") => is_running(sched)
    /\ is_running(sched) => \E w \in Workers : sched.worker[w].pc \in {"cycle", "unmark"}

\* C38: without dry_run, when process_single_show returns, the show it
\* processed is FILTERED, PENDING_TVDB, ADDED, EXISTS or FAILED, the processed
\* counter has grown by one, and exactly one of the counters added, filtered,
\* skipped, failed and exists has grown, by one.
C38_ProcessedShowHasOutcome ==
    [][(pc = "updates" /\ ev'.op = "process" /\ ~config.dry_run) =>
          LET counters == {"shows_added", "shows_filtered", "shows_skipped",
                           "shows_failed", "shows_exists"}
          IN /\ ev'.id \in DOMAIN db'
             /\ db'[ev'.id].processing_status \in
                    {FILTERED, PENDING_TVDB, ADDED, EXISTS, FAILED}
             /\ stats'.shows_processed = stats.shows_processed + 1
             /\ \E c \in counters :
                   /\ stats'[c] = stats[c] + 1
                   /\ \A o \in counters \ {c} : stats'[o] = stats[o]]_vars

\* A show was processed without dry_run and Sonarr answered that it has the
\* series already
C38_Witness ==
    /\ pc = "fed"
    /\ ~config.dry_run
    /\ ev.op = "process"
    /\ ev.decision = ADD
    /\ db[ev.id].processing_status = EXISTS
    /\ stats.shows_exists = 1
    /\ stats.shows_processed = 1

\* C39: a retry attempt that ends with an error other than NotFound leaves the
\* show PENDING_TVDB with retry_after and pending_since set, so that a retry
\* pass at that time or later selects it again or abandons it.
C39_FailedRetryStaysQueued ==
    [][(loc.kind = "retry" /\ ev'.op = "retry"
        /\ ev'.answer \notin {"ok", "not_found"}) =>
          LET id == ev'.id
          IN /\ id \in DOMAIN db'
             /\ db'[id].processing_status = PENDING_TVDB
             /\ db'[id].retry_after # None
             /\ db'[id].pending_since # None
             /\ \A t \in clock..MaxTime :
                   id \in get_shows_for_retry(db', t, AbandonAfter)
                            \cup get_shows_to_abandon(db', t, AbandonAfter)]_vars

\* The upstream request of a retry failed with a transport error and the show
\* is still pending
C39_Witness ==
    /\ loc.kind = "retry"
    /\ ev.op = "retry"
    /\ ev.answer = "error"
    /\ db[ev.id].processing_status = PENDING_TVDB
    /\ db[ev.id].retry_count = 0

\* C40: the worker of a scheduler that was stopped, joined and started again
\* begins a cycle after a wait that the trigger event ended only if
\* trigger_now() was called; the event that stop() set does not reach it.
C40_StopSignalNotLeftPending ==
    [][\A w \in Workers :
          (/\ w > 1
           /\ sched.worker[w].pc = "mark"
           /\ sched'.worker[w].pc = "cycle"
           /\ sched.worker[w].triggered) => sched.triggers > 0]_vars

====
